---- MODULE Spec2Model ----
(***************************************************************************)
(* gitversion-go: the version resolution engine.                           *)
(*                                                                         *)
(* Go strings on which the code works character by character (branch       *)
(* names, tags, regex sources, pre-release and build labels, SHAs) are     *)
(* sequences of one-character strings.  Go strings that the code only      *)
(* compares for equality (increment strategies, workflow names, the        *)
(* forced increment) are TLA+ strings.                                     *)
(***************************************************************************)
EXTENDS Integers, Sequences, FiniteSets, TLC

(***************************************************************************)
(* Bounds of the model.                                                    *)
(***************************************************************************)
MaxCommits == 2

MaxTags == 1

(***************************************************************************)
(* Characters and Go string primitives.                                    *)
(***************************************************************************)
\* Printable ASCII in code order, starting at the space character (32).
\* (Code 96, the grave accent, cannot be written in a TLA+ string; its slot
\* holds a name no one-character string equals.)
AsciiTable ==
    << " " >> \o <<"!","\"","#","$","%","&","'","(",")","*","+",",","-",".","/","0","1","2","3","4","5","6","7","8","9",":",";","<","=",">","?","@">> \o
    <<"A","B","C","D","E","F","G","H","I","J","K","L","M","N","O","P","Q","R","S","T","U","V","W","X","Y","Z","[","\\","]","^","_">> \o << "grave" >> \o
    <<"a","b","c","d","e","f","g","h","i","j","k","l","m","n","o","p","q","r","s","t","u","v","w","x","y","z","{","|","}","~">>

Ord(c) == 31 + (CHOOSE i \in 1..Len(AsciiTable) : AsciiTable[i] = c)

DigitChars == {AsciiTable[i] : i \in 17..26}

AlnumChars == DigitChars \cup {AsciiTable[i] : i \in 34..59} \cup {AsciiTable[i] : i \in 66..91}

IsDigit(c) == c \in DigitChars

IsAlnum(c) == c \in AlnumChars

\* Go's s < t on strings: byte-wise lexicographic order.
StrLess(s, t) ==
    \E i \in 1..(Len(t)) :
        /\ i <= Len(s) + 1
        /\ \A k \in 1..(i-1) : s[k] = t[k]
        /\ \/ i = Len(s) + 1
           \/ (i <= Len(s) /\ Ord(s[i]) < Ord(t[i]))

HasPrefix(s, p) == Len(p) <= Len(s) /\ \A k \in 1..Len(p) : s[k] = p[k]

Contains(s, sub) ==
    \E i \in 1..(Len(s) - Len(sub) + 1) : \A k \in 1..Len(sub) : s[i + k - 1] = sub[k]

\* strings.LastIndex(s, c) for a one-character c, 1-based; 0 when absent.
LastIndex(s, c) ==
    IF \E i \in 1..Len(s) : s[i] = c
    THEN CHOOSE i \in 1..Len(s) : s[i] = c /\ \A j \in (i+1)..Len(s) : s[j] # c
    ELSE 0

\* strings.Split(s, "/"): the pieces between the slashes, in order.
RECURSIVE Split(_)
\* The pieces of s, whose first slash is at index i.
SplitAt(s, i) == << SubSeq(s, 1, i - 1) >> \o Split(SubSeq(s, i + 1, Len(s)))

Split(s) ==
    IF \A i \in 1..Len(s) : s[i] # "/"
    THEN << s >>
    ELSE SplitAt(s, CHOOSE k \in 1..Len(s) : s[k] = "/" /\ \A j \in 1..(k-1) : s[j] # "/")

\* fmt.Sprintf("%d", n) for n >= 0.
RECURSIVE FormatInt(_)
FormatInt(n) ==
    IF n < 10 THEN << AsciiTable[17 + n] >>
    ELSE FormatInt(n \div 10) \o << AsciiTable[17 + (n % 10)] >>

\* strconv.Atoi on a string of decimal digits.
RECURSIVE Atoi(_)
Atoi(s) ==
    IF s = << >> THEN 0
    ELSE Atoi(SubSeq(s, 1, Len(s) - 1)) * 10
         + (CHOOSE d \in 0..9 : AsciiTable[17 + d] = s[Len(s)])

(***************************************************************************)
(* pkg/semver: the Version value type.                                     *)
(***************************************************************************)
Version(ma, mi, pa, pre, build) ==
    [Major |-> ma, Minor |-> mi, Patch |-> pa, PreRelease |-> pre, Build |-> build]

\* [a-zA-Z0-9.-]
PreReleaseChars == AlnumChars \cup {".", "-"}

\* [a-zA-Z0-9.+-]
BuildChars == AlnumChars \cup {".", "+", "-"}

\* Index just past the maximal run of digits of s that starts at i.
DigitRunEnd(s, i) ==
    CHOOSE j \in i..(Len(s) + 1) :
        /\ \A k \in i..(j-1) : IsDigit(s[k])
        /\ (j = Len(s) + 1 \/ ~IsDigit(s[j]))

\* Index just past the maximal run of pre-release characters starting at i.
PreRunEnd(s, i) ==
    CHOOSE j \in i..(Len(s) + 1) :
        /\ \A k \in i..(j-1) : s[k] \in PreReleaseChars
        /\ (j = Len(s) + 1 \/ s[j] \notin PreReleaseChars)

ParseError == [ok |-> FALSE]

\* The optional +<build> group of semverPattern, up to $, after the
\* pre-release pre.
ParseBuild(ma, mi, pa, pre, tail) ==
    IF tail = << >> THEN [ok |-> TRUE, v |-> Version(ma, mi, pa, pre, << >>)]
    ELSE IF /\ tail[1] = "+"
            /\ Len(tail) > 1
            /\ \A k \in 2..Len(tail) : tail[k] \in BuildChars
         THEN [ok |-> TRUE, v |-> Version(ma, mi, pa, pre, SubSeq(tail, 2, Len(tail)))]
         ELSE ParseError

\* The -<prerelease> group, whose characters end just before index e of rest.
ParsePreRelease(ma, mi, pa, rest, e) ==
    IF e = 2 THEN ParseError
    ELSE ParseBuild(ma, mi, pa, SubSeq(rest, 2, e - 1), SubSeq(rest, e, Len(rest)))

\* The optional -<prerelease> and +<build> groups of semverPattern, up to $.
ParseSuffix(ma, mi, pa, rest) ==
    IF rest # << >> /\ rest[1] = "-"
    THEN ParsePreRelease(ma, mi, pa, rest, PreRunEnd(rest, 2))
    ELSE ParseBuild(ma, mi, pa, << >>, rest)

\* The third number of semverPattern ends just before index e3.
ParsePatch(s, b1, e1, e2, e3) ==
    IF e3 = e2 + 1 THEN ParseError
    ELSE ParseSuffix(Atoi(SubSeq(s, b1, e1 - 1)),
                     Atoi(SubSeq(s, e1 + 1, e2 - 1)),
                     Atoi(SubSeq(s, e2 + 1, e3 - 1)),
                     SubSeq(s, e3, Len(s)))

\* The second number of semverPattern ends just before index e2.
ParseMinor(s, b1, e1, e2) ==
    IF e2 = e1 + 1 \/ e2 > Len(s) \/ s[e2] # "." THEN ParseError
    ELSE ParsePatch(s, b1, e1, e2, DigitRunEnd(s, e2 + 1))

\* The first number of semverPattern starts at index b1 and ends just
\* before index e1.
ParseMajor(s, b1, e1) ==
    IF e1 = b1 \/ e1 > Len(s) \/ s[e1] # "." THEN ParseError
    ELSE ParseMinor(s, b1, e1, DigitRunEnd(s, e1 + 1))

\* After the optional v, at index b1.
ParseFrom(s, b1) == ParseMajor(s, b1, DigitRunEnd(s, b1))

\* semver.Parse: ^v?(\d+)\.(\d+)\.(\d+)(?:-([a-zA-Z0-9.-]+))?(?:\+([a-zA-Z0-9.+-]+))?$
Parse(s) == ParseFrom(s, IF Len(s) > 0 /\ s[1] = "v" THEN 2 ELSE 1)

IncrementMajor(v) == [v EXCEPT !.Major = v.Major + 1, !.Minor = 0, !.Patch = 0]

\* Faulty variant of IncrementMinor: the patch number is kept.
IncrementMinorKeepsPatch(v) == [v EXCEPT !.Minor = v.Minor + 1]

IncrementMinor(v) == [v EXCEPT !.Minor = v.Minor + 1, !.Patch = 0]

IncrementPatch(v) == [v EXCEPT !.Patch = v.Patch + 1]

\* Faulty variant of Compare: the pre-release labels are compared as strings
\* even when one of them is empty.
CompareLabelsAsStrings(v, other) ==
    IF v.Major < other.Major THEN -1
    ELSE IF v.Major > other.Major THEN 1
    ELSE IF v.Minor < other.Minor THEN -1
    ELSE IF v.Minor > other.Minor THEN 1
    ELSE IF v.Patch < other.Patch THEN -1
    ELSE IF v.Patch > other.Patch THEN 1
    ELSE IF v.PreRelease = other.PreRelease THEN 0
    ELSE IF StrLess(v.PreRelease, other.PreRelease) THEN -1
    ELSE 1

\* Version.Compare: -1, 0 or 1.
Compare(v, other) ==
    IF v.Major < other.Major THEN -1
    ELSE IF v.Major > other.Major THEN 1
    ELSE IF v.Minor < other.Minor THEN -1
    ELSE IF v.Minor > other.Minor THEN 1
    ELSE IF v.Patch < other.Patch THEN -1
    ELSE IF v.Patch > other.Patch THEN 1
    ELSE IF v.PreRelease = << >> /\ other.PreRelease # << >> THEN 1
    ELSE IF v.PreRelease # << >> /\ other.PreRelease = << >> THEN -1
    ELSE IF v.PreRelease = other.PreRelease THEN 0
    ELSE IF StrLess(v.PreRelease, other.PreRelease) THEN -1
    ELSE 1

\* Faulty variant of GreaterThan: the pre-release labels are not looked at.
GreaterThanByTriple(v, other) ==
    \/ v.Major > other.Major
    \/ (v.Major = other.Major /\ v.Minor > other.Minor)
    \/ (v.Major = other.Major /\ v.Minor = other.Minor /\ v.Patch > other.Patch)

GreaterThan(v, other) == Compare(v, other) > 0

\* Version.Copy: a fresh value with the same five fields.
Copy(v) == Version(v.Major, v.Minor, v.Patch, v.PreRelease, v.Build)

\* semver.SanitizeBranchName: every character outside [a-zA-Z0-9] becomes '-'.
SanitizeBranchName(branch) ==
    [i \in 1..Len(branch) |-> IF IsAlnum(branch[i]) THEN branch[i] ELSE "-"]

(***************************************************************************)
(* pkg/config: branch policies and branch classification.                  *)
(***************************************************************************)
\* PreventIncrementConfiguration; isNil models the nil pointer a configuration
\* file leaves when it has no prevent-increment section.
PreventIncrement(ofMerged, whenTagged) ==
    [isNil |-> FALSE, OfMergedBranch |-> ofMerged,
     WhenCurrentCommitTagged |-> whenTagged, WhenBranchMerged |-> FALSE]

NilPreventIncrement ==
    [isNil |-> TRUE, OfMergedBranch |-> FALSE,
     WhenCurrentCommitTagged |-> FALSE, WhenBranchMerged |-> FALSE]

\* BranchConfiguration, with the fields the engine reads.
BranchConfiguration(label, increment, prevent, trackMergeMessage, regex, tracksRelease, isMain) ==
    [Label |-> label, Increment |-> increment, PreventIncrement |-> prevent,
     TrackMergeMessage |-> trackMergeMessage, Regex |-> regex,
     TracksReleaseBranches |-> tracksRelease, IsMainBranch |-> isMain]

getDefaultBranchConfigurations ==
    (<<"m","a","i","n">> :> BranchConfiguration("", "Patch", PreventIncrement(FALSE, FALSE), TRUE,
                  <<"^","(","m","a","s","t","e","r","|","m","a","i","n",")","$">>, FALSE, TRUE))
    @@ (<<"d","e","v","e","l","o","p">> :> BranchConfiguration("alpha", "Minor", PreventIncrement(FALSE, FALSE), TRUE,
                  <<"^","d","e","v","(","e","l","o","p",")","?","(","m","e","n","t",")","?","$">>, TRUE, FALSE))
    @@ (<<"r","e","l","e","a","s","e">> :> BranchConfiguration("beta", "None", PreventIncrement(TRUE, FALSE), TRUE,
                  <<"^","r","e","l","e","a","s","e","s","?","[","\\","/","-","]","(","?","<","B","r","a","n","c","h","N","a","m","e",">",".","+",")">>, FALSE, FALSE))
    @@ (<<"f","e","a","t","u","r","e">> :> BranchConfiguration("{BranchName}", "Inherit", PreventIncrement(FALSE, FALSE), TRUE,
                  <<"^","f","e","a","t","u","r","e","s","?","[","\\","/","-","]","(","?","<","B","r","a","n","c","h","N","a","m","e",">",".","+",")">>, FALSE, FALSE))
    @@ (<<"p","u","l","l","-","r","e","q","u","e","s","t">> :> BranchConfiguration("PullRequest{Number}", "Inherit", PreventIncrement(TRUE, FALSE), TRUE,
                  <<"^","(","p","u","l","l","-","r","e","q","u","e","s","t","s","|","p","u","l","l","|","p","r",")","[","\\","/","-","]","(","?","<","N","u","m","b","e","r",">","\\","d","*",")">>, FALSE, FALSE))
    @@ (<<"h","o","t","f","i","x">> :> BranchConfiguration("beta", "Inherit", PreventIncrement(FALSE, FALSE), FALSE,
                  <<"^","h","o","t","f","i","x","(","e","s",")","?","[","\\","/","-","]","(","?","<","B","r","a","n","c","h","N","a","m","e",">",".","+",")">>, FALSE, FALSE))
    @@ (<<"s","u","p","p","o","r","t">> :> BranchConfiguration("", "Patch", PreventIncrement(FALSE, FALSE), FALSE,
                  <<"^","s","u","p","p","o","r","t","[","\\","/","-","]","(","?","<","B","r","a","n","c","h","N","a","m","e",">",".","+",")">>, FALSE, FALSE))

getDefaultConfig ==
    [NextVersion |-> <<"1",".","0",".","0">>,
     Strategies |-> << "Fallback", "ConfiguredNextVersion", "MergeMessage", "TaggedCommit",
                      "TrackReleaseBranches", "VersionInBranchName" >>,
     Branches |-> getDefaultBranchConfigurations]

\* The branches section of a user's configuration file (custom.yml, which
\* also lists the strategies Mainline and VersionInBranchName): policies
\* with every increment strategy, with and without prevent-increment flags,
\* and two policies ("release", "rc") whose regexes both accept release/...
CustomBranches ==
    (<<"m","a","i","n">> :> BranchConfiguration("", "Patch", NilPreventIncrement, FALSE, << >>, FALSE, TRUE))
    @@ (<<"d","e","v","e","l","o","p">> :> BranchConfiguration("alpha", "Minor", PreventIncrement(FALSE, TRUE), FALSE,
                  <<"^","d","e","v","(","e","l","o","p",")","?","(","m","e","n","t",")","?","$">>, FALSE, FALSE))
    @@ (<<"r","e","l","e","a","s","e">> :> BranchConfiguration("beta", "Patch", PreventIncrement(TRUE, FALSE), TRUE,
                  <<"^","r","e","l","e","a","s","e","s","?","[","\\","/","-","]","(","?","<","B","r","a","n","c","h","N","a","m","e",">",".","+",")">>, FALSE, FALSE))
    @@ (<<"r","c">> :> BranchConfiguration("rc", "Major", NilPreventIncrement, TRUE,
                  <<"^","r","e","l","e","a","s","e","s","?","[","\\","/","-","]",".","+","-","(","a","l","p","h","a","|","b","e","t","a","|","r","c",")">>, FALSE, FALSE))
    @@ (<<"f","e","a","t","u","r","e">> :> BranchConfiguration("{BranchName}", "Major", PreventIncrement(FALSE, FALSE), FALSE,
                  << >>, FALSE, FALSE))
    @@ (<<"h","o","t","f","i","x">> :> BranchConfiguration("beta", "None", NilPreventIncrement, FALSE,
                  << >>, FALSE, FALSE))

\* The configuration files of the model, as deserialized; "" is no file.
ConfigPaths == {"", "bare.yml", "custom.yml"}

ParsedFile(configPath) ==
    IF configPath = "custom.yml"
    THEN [NextVersion |-> << >>, Strategies |-> << "Mainline", "VersionInBranchName" >>,
          BranchesNil |-> FALSE, Branches |-> CustomBranches]
    ELSE [NextVersion |-> << >>, Strategies |-> << >>,
          BranchesNil |-> TRUE, Branches |-> CustomBranches]

\* The defaults LoadConfig fills in after unmarshalling the file.
SetDefaults(file) ==
    [NextVersion |-> file.NextVersion,
     Strategies |-> IF Len(file.Strategies) = 0 THEN getDefaultConfig.Strategies
                    ELSE file.Strategies,
     Branches |-> IF file.BranchesNil THEN getDefaultBranchConfigurations
                  ELSE file.Branches]

LoadConfig(configPath) ==
    IF configPath = "" THEN getDefaultConfig ELSE SetDefaults(ParsedFile(configPath))

\* Faulty variant of matchesRegex: the special cases look for their prefixes
\* anywhere in the branch name.
matchesRegexAnywhere(branchName, pattern) ==
    IF pattern = <<"^","(","m","a","s","t","e","r","|","m","a","i","n",")","$">> THEN branchName = <<"m","a","s","t","e","r">> \/ branchName = <<"m","a","i","n">>
    ELSE IF pattern = <<"^","d","e","v","(","e","l","o","p",")","?","(","m","e","n","t",")","?","$">>
         THEN branchName = <<"d","e","v">> \/ branchName = <<"d","e","v","e","l","o","p">> \/ branchName = <<"d","e","v","e","l","o","p","m","e","n","t">>
    ELSE IF Contains(pattern, <<"r","e","l","e","a","s","e","s","?">>)
         THEN Contains(branchName, <<"r","e","l","e","a","s","e","/">>) \/ Contains(branchName, <<"r","e","l","e","a","s","e","s","/">>)
    ELSE IF Contains(pattern, <<"f","e","a","t","u","r","e","s","?">>)
         THEN Contains(branchName, <<"f","e","a","t","u","r","e","/">>) \/ Contains(branchName, <<"f","e","a","t","u","r","e","s","/">>)
    ELSE IF Contains(pattern, <<"h","o","t","f","i","x">>)
         THEN Contains(branchName, <<"h","o","t","f","i","x","/">>) \/ Contains(branchName, <<"h","o","t","f","i","x","e","s","/">>)
    ELSE IF Contains(pattern, <<"s","u","p","p","o","r","t">>) THEN Contains(branchName, <<"s","u","p","p","o","r","t","/">>)
    ELSE IF Contains(pattern, <<"p","u","l","l">>)
         THEN Contains(branchName, <<"p","u","l","l","/">>) \/ Contains(branchName, <<"p","r","/">>)
    ELSE FALSE

\* matchesRegex: not a regular-expression engine, a chain of special cases.
matchesRegex(branchName, pattern) ==
    IF pattern = <<"^","(","m","a","s","t","e","r","|","m","a","i","n",")","$">> THEN branchName = <<"m","a","s","t","e","r">> \/ branchName = <<"m","a","i","n">>
    ELSE IF pattern = <<"^","d","e","v","(","e","l","o","p",")","?","(","m","e","n","t",")","?","$">>
         THEN branchName = <<"d","e","v">> \/ branchName = <<"d","e","v","e","l","o","p">> \/ branchName = <<"d","e","v","e","l","o","p","m","e","n","t">>
    ELSE IF Contains(pattern, <<"r","e","l","e","a","s","e","s","?">>)
         THEN HasPrefix(branchName, <<"r","e","l","e","a","s","e","/">>) \/ HasPrefix(branchName, <<"r","e","l","e","a","s","e","s","/">>)
    ELSE IF Contains(pattern, <<"f","e","a","t","u","r","e","s","?">>)
         THEN HasPrefix(branchName, <<"f","e","a","t","u","r","e","/">>) \/ HasPrefix(branchName, <<"f","e","a","t","u","r","e","s","/">>)
    ELSE IF Contains(pattern, <<"h","o","t","f","i","x">>)
         THEN HasPrefix(branchName, <<"h","o","t","f","i","x","/">>) \/ HasPrefix(branchName, <<"h","o","t","f","i","x","e","s","/">>)
    ELSE IF Contains(pattern, <<"s","u","p","p","o","r","t">>) THEN HasPrefix(branchName, <<"s","u","p","p","o","r","t","/">>)
    ELSE IF Contains(pattern, <<"p","u","l","l">>)
         THEN HasPrefix(branchName, <<"p","u","l","l","/">>) \/ HasPrefix(branchName, <<"p","r","/">>)
    ELSE FALSE

\* The policy GetBranchConfiguration builds when nothing matches.
DefaultBranchConfiguration ==
    BranchConfiguration("{BranchName}", "Patch", PreventIncrement(FALSE, FALSE), FALSE, << >>, FALSE, FALSE)

\* A nil *BranchConfiguration: the value a branches section holds for a key
\* written without a body ("main: null").
NilBranchConfiguration == [isNil |-> TRUE]

\* The run-time panic of reading config.Regex through a nil pointer.
PanicNilPointer == [panic |-> "nil pointer dereference"]

\* The keys whose policy the regex loop can return.
RegexMatches(c, branchName) ==
    {n \in DOMAIN c.Branches :
        /\ c.Branches[n] # NilBranchConfiguration
        /\ c.Branches[n].Regex # << >>
        /\ matchesRegex(branchName, c.Branches[n].Regex)}

\* The keys whose policy the prefix loop can return.
PrefixMatches(c, branchName) ==
    {n \in DOMAIN c.Branches : HasPrefix(branchName, n \o <<"/">>)}

\* Faulty variant of FirstMatch: the prefix loop runs before the regex loop.
FirstMatchPrefixFirst(c, byRegex, byPrefix) ==
    IF byPrefix # {} THEN {c.Branches[n] : n \in byPrefix}
    ELSE IF byRegex # {} THEN {c.Branches[n] : n \in byRegex}
    ELSE {DefaultBranchConfiguration}

\* The policies the two loops of GetBranchConfiguration can return, given the
\* keys each loop matches.
FirstMatch(c, byRegex, byPrefix) ==
    IF byRegex # {} THEN {c.Branches[n] : n \in byRegex}
    ELSE IF byPrefix # {} THEN {c.Branches[n] : n \in byPrefix}
    ELSE {DefaultBranchConfiguration}

\* Config.GetBranchConfiguration.  Both loops range over a Go map, whose
\* iteration order differs from run to run, and return at the first match:
\* the result is any one of the matching policies.  The regex loop reads
\* config.Regex of every entry it visits, so that with a nil entry in the map
\* it panics unless it meets a match first.  The operator is the set of
\* outcomes a call can have.
GetBranchConfiguration(c, branchName) ==
    IF branchName \in DOMAIN c.Branches THEN {c.Branches[branchName]}
    ELSE IF NilBranchConfiguration \in {c.Branches[n] : n \in DOMAIN c.Branches}
    THEN {c.Branches[n] : n \in RegexMatches(c, branchName)} \cup {PanicNilPointer}
    ELSE FirstMatch(c, RegexMatches(c, branchName), PrefixMatches(c, branchName))

(***************************************************************************)
(* The repository: one line of history, newest commit last, and the tags   *)
(* on it.  A commit carries what mergePattern captures from its subject    *)
(* (the merged branch's name), empty when the subject is not a merge.      *)
(***************************************************************************)
VARIABLES log, tagAt, pc, opts, run

vars == << log, tagAt, pc, opts, run >>

\* The tag names of the model, in refname order (the order of `git tag`).
TagNames == << <<"l","a","t","e","s","t">>, <<"v","0",".","1",".","0">>, <<"v","5",".","0",".","0">> >>

\* What mergePattern captures from the commit subjects of the model.
MergedBranches == { << >>, <<"r","e","l","e","a","s","e","/","3",".","0",".","0">> }

\* The branch checked out in the repository.
CheckedOutBranch == <<"m","a","i","n">>

\* The object names of the commits: 40 hexadecimal digits in git, 10 here.
FullSHA(i) == <<"a","b","c","1","2","3">> \o FormatInt(i) \o <<"d","e","f">>

HasCommits == Len(log) > 0

\* git rev-parse --abbrev-ref HEAD; "HEAD" when git fails (no commit yet).
GetCurrentBranch == IF HasCommits THEN CheckedOutBranch ELSE <<"H","E","A","D">>

\* git rev-parse HEAD; "unknown" when git fails.
GetSHA == IF HasCommits THEN FullSHA(Len(log)) ELSE <<"u","n","k","n","o","w","n">>

\* git rev-parse --short HEAD: the first seven characters.
GetShortSHA == IF HasCommits THEN SubSeq(FullSHA(Len(log)), 1, 7) ELSE <<"u","n","k","n","o","w","n">>

\* Indices of the tags that exist, in refname order.
RECURSIVE ExistingTags(_)
ExistingTags(i) ==
    IF i > Len(TagNames) THEN << >>
    ELSE (IF tagAt[i] > 0 THEN << i >> ELSE << >>) \o ExistingTags(i + 1)

TagIndex(tag) == CHOOSE i \in 1..Len(TagNames) : TagNames[i] = tag

\* git tag --merged HEAD; a failure of git is reported as no tags.
GetTagsOnCurrentBranch ==
    IF HasCommits THEN [k \in 1..Len(ExistingTags(1)) |-> TagNames[ExistingTags(1)[k]]]
    ELSE << >>

\* git rev-list -n 1 <tag>.
GetCommitSHAForTag(tag) ==
    IF tag \in {TagNames[i] : i \in 1..Len(TagNames)} /\ tagAt[TagIndex(tag)] > 0
    THEN [err |-> FALSE, sha |-> FullSHA(tagAt[TagIndex(tag)])]
    ELSE [err |-> TRUE, sha |-> << >>]

\* git describe --tags --abbrev=0: the nearest tag, "" when there is none.
GetLatestTag ==
    IF ExistingTags(1) = << >> THEN << >>
    ELSE LET near == CHOOSE i \in 1..Len(TagNames) :
                        /\ tagAt[i] > 0
                        /\ \A j \in 1..Len(TagNames) : tagAt[j] <= tagAt[i]
                        /\ \A j \in 1..(i-1) : tagAt[j] < tagAt[i]
         IN  TagNames[near]

\* git branch -r: the repository has no remote.
GetBranches == [err |-> FALSE, branches |-> << >>]

\* git merge-base <branch1> <branch2>.
GetMergeBase(branch1, branch2) ==
    IF HasCommits /\ branch1 = CheckedOutBranch /\ branch2 = CheckedOutBranch
    THEN [err |-> FALSE, sha |-> GetSHA]
    ELSE [err |-> TRUE, sha |-> << >>]

\* git log -<limit>, newest first; git fails when there is no commit.
GetCommitHistory(limit) ==
    IF ~HasCommits THEN [err |-> TRUE, commits |-> << >>]
    ELSE LET n == IF Len(log) < limit THEN Len(log) ELSE limit
         IN  [err |-> FALSE,
              commits |-> [k \in 1..n |->
                              [SHA |-> FullSHA(Len(log) + 1 - k),
                               mergedBranch |-> log[Len(log) + 1 - k].mergedBranch]]]

\* git rev-list --count; a failure of git is reported as 0.
GetCommitCountSinceTag(tag) ==
    IF tag = << >> THEN Len(log)
    ELSE IF tag \in {TagNames[i] : i \in 1..Len(TagNames)} /\ tagAt[TagIndex(tag)] > 0
         THEN Len(log) - tagAt[TagIndex(tag)]
         ELSE 0

(***************************************************************************)
(* internal/version: the base version strategies.                          *)
(***************************************************************************)
\* BaseVersion.  Source is the Sprintf'ed description: its fixed text and the
\* reference formatted into it.
BaseVersion(version, text, ref, shouldIncrement, baseVersionSource) ==
    [SemanticVersion |-> version, Source |-> [text |-> text, ref |-> ref],
     ShouldIncrement |-> shouldIncrement, BaseVersionSource |-> baseVersionSource]

\* What a strategy returns: an error, or a list of base versions.
StrategyOk(baseVersions) == [err |-> FALSE, baseVersions |-> baseVersions]

StrategyError == [err |-> TRUE, baseVersions |-> << >>]

\* The VersionContext handed to the strategies.
VersionContext(c, branch, commit, branchConfig, strategies, nextVersion) ==
    [Config |-> c, CurrentBranch |-> branch, CurrentCommit |-> commit,
     BranchConfig |-> branchConfig, Strategies |-> strategies, NextVersion |-> nextVersion]

FallbackStrategy(ctx) ==
    StrategyOk(<< BaseVersion(Version(0, 0, 0, << >>, << >>), "Fallback strategy", << >>, TRUE, << >>) >>)

\* ConfiguredNextVersionStrategy once the next version to use is chosen and
\* parsed.
ConfiguredNextVersionFrom(nextVersion, parsed) ==
    IF nextVersion = << >> THEN StrategyOk(<< >>)
    ELSE IF ~parsed.ok THEN StrategyError
    ELSE StrategyOk(<< BaseVersion(parsed.v, "Configured next version",
                                   nextVersion, FALSE, << >>) >>)

\* The explicit next version, or else the configuration's.
ConfiguredNextVersion(ctx) ==
    IF ctx.NextVersion = << >> THEN ctx.Config.NextVersion ELSE ctx.NextVersion

ConfiguredNextVersionStrategy(ctx) ==
    ConfiguredNextVersionFrom(ConfiguredNextVersion(ctx), Parse(ConfiguredNextVersion(ctx)))

\* One pass of the loop of TaggedCommitStrategy: unparseable tags and tags
\* whose commit cannot be resolved are skipped.
TaggedCommitStep(tag, parsed, resolved) ==
    IF ~parsed.ok \/ resolved.err THEN << >>
    ELSE << BaseVersion(parsed.v, "Tag", tag, TRUE, resolved.sha) >>

\* The loop of TaggedCommitStrategy over tags[i..].
RECURSIVE TaggedCommitLoop(_, _)
TaggedCommitLoop(tags, i) ==
    IF i > Len(tags) THEN << >>
    ELSE TaggedCommitStep(tags[i], Parse(tags[i]), GetCommitSHAForTag(tags[i]))
         \o TaggedCommitLoop(tags, i + 1)

TaggedCommitStrategy(ctx) == StrategyOk(TaggedCommitLoop(GetTagsOnCurrentBranch, 1))

\* [0-9A-Za-z\-]
VersionLabelChars == AlnumChars \cup {"-"}

LabelRunEnd(s, i) ==
    CHOOSE j \in i..(Len(s) + 1) :
        /\ \A k \in i..(j-1) : s[k] \in VersionLabelChars
        /\ (j = Len(s) + 1 \/ s[j] \notin VersionLabelChars)

\* \.(\d+) matches s from the dot at index e2 on.
VersionPatchAt(s, e2, e3) == e3 > e2 + 1

\* \.(\d+)\.(\d+) matches s from the dot at index e1 on.
VersionMinorAt(s, e1, e2) ==
    /\ e2 > e1 + 1 /\ e2 <= Len(s) /\ s[e2] = "."
    /\ VersionPatchAt(s, e2, DigitRunEnd(s, e2 + 1))

\* (\d+)\.(\d+)\.(\d+) matches s at index i, its first number ending just
\* before index e1.
VersionMajorAt(s, i, e1) ==
    /\ e1 > i /\ e1 <= Len(s) /\ s[e1] = "."
    /\ VersionMinorAt(s, e1, DigitRunEnd(s, e1 + 1))

\* (\d+)\.(\d+)\.(\d+) matches s starting at index i.
VersionCoreAt(s, i) == VersionMajorAt(s, i, DigitRunEnd(s, i))

\* End of the greedy (?:\.[0-9A-Za-z\-]+)* that starts at index p.
RECURSIVE DottedLabelsEnd(_, _)
\* One \.[0-9A-Za-z\-]+ from the dot at index p, its label ending just
\* before index e.
DottedLabelAt(s, p, e) == IF e > p + 1 THEN DottedLabelsEnd(s, e) ELSE p

DottedLabelsEnd(s, p) ==
    IF p <= Len(s) /\ s[p] = "." THEN DottedLabelAt(s, p, LabelRunEnd(s, p + 1)) ELSE p

\* The pre-release group of a match whose third number ends just before
\* index e3; l is the end of the first label after e3.
VersionPreRelease(s, e3, l) ==
    IF e3 <= Len(s) /\ s[e3] = "-" /\ l > e3 + 1
    THEN SubSeq(s, e3 + 1, DottedLabelsEnd(s, l) - 1)
    ELSE << >>

\* The match of versionPattern whose numbers start at i and end just before
\* e1, e2 and e3.
VersionMatch(s, i, e1, e2, e3) ==
    [found |-> TRUE,
     v |-> Version(Atoi(SubSeq(s, i, e1 - 1)),
                   Atoi(SubSeq(s, e1 + 1, e2 - 1)),
                   Atoi(SubSeq(s, e2 + 1, e3 - 1)),
                   VersionPreRelease(s, e3, LabelRunEnd(s, e3 + 1)),
                   << >>)]

VersionMatchMinor(s, i, e1, e2) == VersionMatch(s, i, e1, e2, DigitRunEnd(s, e2 + 1))

VersionMatchMajor(s, i, e1) == VersionMatchMinor(s, i, e1, DigitRunEnd(s, e1 + 1))

\* The match of versionPattern that starts at index i of s.
VersionMatchAt(s, i) == VersionMatchMajor(s, i, DigitRunEnd(s, i))

\* versionPattern.FindStringSubmatch: the leftmost match of
\* (\d+)\.(\d+)\.(\d+)(?:-([0-9A-Za-z\-]+(?:\.[0-9A-Za-z\-]+)*))? in s, with
\* the Atoi of its three numbers and its pre-release group.
FindVersion(s) ==
    IF ~\E i \in 1..Len(s) : VersionCoreAt(s, i)
    THEN [found |-> FALSE, v |-> Version(0, 0, 0, << >>, << >>)]
    ELSE VersionMatchAt(s, CHOOSE k \in 1..Len(s) :
                               VersionCoreAt(s, k) /\ \A j \in 1..(k-1) : ~VersionCoreAt(s, j))

\* One pass of the loop of MergeMessageStrategy, on the branch name the
\* merge pattern captured from the commit's message.
MergeMessageStep(ctx, commit, versionMatches) ==
    IF commit.mergedBranch = << >> \/ ~versionMatches.found THEN << >>
    ELSE << BaseVersion(versionMatches.v, "Merge message", commit.mergedBranch,
                        ~(/\ ~ctx.BranchConfig.PreventIncrement.isNil
                          /\ ctx.BranchConfig.PreventIncrement.OfMergedBranch),
                        commit.SHA) >>

\* The loop of MergeMessageStrategy over commits[i..].
RECURSIVE MergeMessageLoop(_, _, _)
MergeMessageLoop(ctx, commits, i) ==
    IF i > Len(commits) THEN << >>
    ELSE MergeMessageStep(ctx, commits[i], FindVersion(commits[i].mergedBranch))
         \o MergeMessageLoop(ctx, commits, i + 1)

\* MergeMessageStrategy on the history GetCommitHistory returned.
MergeMessagesOf(ctx, history) ==
    IF history.err THEN StrategyError
    ELSE StrategyOk(MergeMessageLoop(ctx, history.commits, 1))

MergeMessageStrategy(ctx) ==
    IF ~ctx.BranchConfig.TrackMergeMessage THEN StrategyOk(<< >>)
    ELSE MergeMessagesOf(ctx, GetCommitHistory(50))

\* VersionInBranchNameStrategy on the match of versionPattern in the branch
\* name.
VersionInBranchNameFrom(ctx, versionMatches) ==
    IF ~versionMatches.found THEN StrategyOk(<< >>)
    ELSE StrategyOk(<< BaseVersion(versionMatches.v, "Version in branch name",
                                   ctx.CurrentBranch, FALSE, ctx.CurrentCommit) >>)

VersionInBranchNameStrategy(ctx) ==
    VersionInBranchNameFrom(ctx, FindVersion(ctx.CurrentBranch))

\* ^releases?[/-]
IsReleaseBranchName(branch) ==
    \/ HasPrefix(branch, <<"r","e","l","e","a","s","e","/">>) \/ HasPrefix(branch, <<"r","e","l","e","a","s","e","-">>)
    \/ HasPrefix(branch, <<"r","e","l","e","a","s","e","s","/">>) \/ HasPrefix(branch, <<"r","e","l","e","a","s","e","s","-">>)

\* One pass of the loop of TrackReleaseBranchesStrategy.
TrackReleaseBranchesStep(branch, versionMatches, mergeBase) ==
    IF ~IsReleaseBranchName(branch) \/ ~versionMatches.found \/ mergeBase.err THEN << >>
    ELSE << BaseVersion(versionMatches.v, "Release branch", branch, TRUE, mergeBase.sha) >>

\* The loop of TrackReleaseBranchesStrategy over branches[i..].
RECURSIVE TrackReleaseBranchesLoop(_, _, _)
TrackReleaseBranchesLoop(ctx, branches, i) ==
    IF i > Len(branches) THEN << >>
    ELSE TrackReleaseBranchesStep(branches[i], FindVersion(branches[i]),
                                  GetMergeBase(branches[i], ctx.CurrentBranch))
         \o TrackReleaseBranchesLoop(ctx, branches, i + 1)

\* TrackReleaseBranchesStrategy on the branches GetBranches returned.
TrackReleaseBranchesOf(ctx, remote) ==
    IF remote.err THEN StrategyError
    ELSE StrategyOk(TrackReleaseBranchesLoop(ctx, remote.branches, 1))

TrackReleaseBranchesStrategy(ctx) ==
    IF ~ctx.BranchConfig.TracksReleaseBranches THEN StrategyOk(<< >>)
    ELSE TrackReleaseBranchesOf(ctx, GetBranches)

\* MainlineStrategy on the latest tag.  GetLatestTag never returns an error,
\* so the "no tags" arm is not taken; an empty or unparseable latest tag gives
\* the "invalid tag" base 0.0.0.
MainlineFrom(latestTag, parsed) ==
    IF ~parsed.ok
    THEN StrategyOk(<< BaseVersion(Version(0, 0, 0, << >>, << >>),
                                   "Mainline strategy (invalid tag)", << >>, TRUE, << >>) >>)
    ELSE StrategyOk(<< BaseVersion(parsed.v, "Mainline strategy from tag", latestTag, TRUE,
                                   GetCommitSHAForTag(latestTag).sha) >>)

MainlineStrategy(ctx) ==
    IF ~ctx.BranchConfig.IsMainBranch THEN StrategyOk(<< >>)
    ELSE MainlineFrom(GetLatestTag, Parse(GetLatestTag))

(***************************************************************************)
(* internal/version: the strategy manager.                                 *)
(***************************************************************************)
strategyOrder ==
    << "ConfiguredNextVersion", "VersionInBranchName", "TaggedCommit",
       "TrackReleaseBranches", "MergeMessage", "Mainline", "Fallback" >>

\* strategy.GetBaseVersions(ctx) for the strategy registered under a flag.
StrategyGetBaseVersions(strategyType, ctx) ==
    CASE strategyType = "ConfiguredNextVersion" -> ConfiguredNextVersionStrategy(ctx)
      [] strategyType = "VersionInBranchName" -> VersionInBranchNameStrategy(ctx)
      [] strategyType = "TaggedCommit" -> TaggedCommitStrategy(ctx)
      [] strategyType = "TrackReleaseBranches" -> TrackReleaseBranchesStrategy(ctx)
      [] strategyType = "MergeMessage" -> MergeMessageStrategy(ctx)
      [] strategyType = "Mainline" -> MainlineStrategy(ctx)
      [] strategyType = "Fallback" -> FallbackStrategy(ctx)

\* The loop of StrategyManager.GetBaseVersions from strategyOrder[i] on, with
\* the base versions collected so far: the first error ends it.
RECURSIVE StrategyLoop(_, _, _)
\* The loop once strategyOrder[i] has returned result.
StrategyAppend(ctx, i, allBaseVersions, result) ==
    IF result.err THEN StrategyError
    ELSE StrategyLoop(ctx, i + 1, allBaseVersions \o result.baseVersions)

StrategyLoop(ctx, i, allBaseVersions) ==
    IF i > Len(strategyOrder) THEN StrategyOk(allBaseVersions)
    ELSE IF strategyOrder[i] \notin ctx.Strategies
         THEN StrategyLoop(ctx, i + 1, allBaseVersions)
    ELSE StrategyAppend(ctx, i, allBaseVersions,
                        StrategyGetBaseVersions(strategyOrder[i], ctx))

\* "If no strategies returned versions, use fallback".
OrFallback(ctx, looped) ==
    IF looped.err THEN looped
    ELSE IF Len(looped.baseVersions) = 0
         THEN StrategyOk(FallbackStrategy(ctx).baseVersions)
         ELSE looped

\* StrategyManager.GetBaseVersions.
GetBaseVersions(ctx) == OrFallback(ctx, StrategyLoop(ctx, 1, << >>))

(***************************************************************************)
(* internal/version: the calculator.                                       *)
(***************************************************************************)
getBranchType(branch, workflow) ==
    IF workflow = "gitflow" THEN
        IF branch = <<"m","a","i","n">> \/ branch = <<"m","a","s","t","e","r">> THEN "main"
        ELSE IF branch = <<"d","e","v","e","l","o","p">> THEN "develop"
        ELSE IF HasPrefix(branch, <<"f","e","a","t","u","r","e","/">>) THEN "feature"
        ELSE IF HasPrefix(branch, <<"r","e","l","e","a","s","e","/">>) THEN "release"
        ELSE IF HasPrefix(branch, <<"h","o","t","f","i","x","/">>) THEN "hotfix"
        ELSE IF HasPrefix(branch, <<"s","u","p","p","o","r","t","/">>) THEN "support"
        ELSE "unknown"
    ELSE IF workflow = "githubflow" THEN
        IF branch = <<"m","a","i","n">> \/ branch = <<"m","a","s","t","e","r">> THEN "main" ELSE "feature"
    ELSE IF workflow = "trunk" THEN "main"
    ELSE "unknown"

\* Faulty variant of extractFeatureName: the whole branch name is sanitized,
\* not its last path segment.
extractFeatureNameWholeBranch(branch) == SanitizeBranchName(branch)

\* extractFeatureName on the parts of the split branch name.
LastPart(branch, parts) ==
    IF Len(parts) > 1 THEN SanitizeBranchName(parts[Len(parts)])
    ELSE SanitizeBranchName(branch)

extractFeatureName(branch) == LastPart(branch, Split(branch))

\* What follows the last '-' of the version part, at dashIndex.
AfterLastDash(versionPart, dashIndex) ==
    IF dashIndex # 0 /\ dashIndex < Len(versionPart)
    THEN SanitizeBranchName(SubSeq(versionPart, dashIndex + 1, Len(versionPart)))
    ELSE << >>

\* extractReleaseName on the parts of the split branch name.
ReleaseNameOf(parts) ==
    IF Len(parts) > 1
    THEN AfterLastDash(parts[Len(parts)], LastIndex(parts[Len(parts)], "-"))
    ELSE << >>

extractReleaseName(branch) == ReleaseNameOf(Split(branch))

\* Faulty variant of ReleaseLabel: the default label is "rc".
ReleaseLabelDefaultRc(releaseName) == IF releaseName # << >> THEN releaseName ELSE <<"r","c">>

\* The Release case's label: the release name, "beta" when it is empty.
ReleaseLabel(releaseName) == IF releaseName # << >> THEN releaseName ELSE <<"b","e","t","a">>

\* fmt.Sprintf("%s.%d", label, commitCount)
LabelDotCount(label, commitCount) == label \o <<".">> \o FormatInt(commitCount)

\* fmt.Sprintf("%d+%s", commitCount, sha)
CountPlusSHA(commitCount, sha) == FormatInt(commitCount) \o <<"+">> \o sha

\* The pre-release the branch type's case assigns when commitCount > 0.
BranchPreRelease(branch, branchType, commitCount) ==
    IF branchType = "develop" THEN LabelDotCount(<<"a","l","p","h","a">>, commitCount)
    ELSE IF branchType = "feature" THEN LabelDotCount(extractFeatureName(branch), commitCount)
    ELSE IF branchType = "release"
         THEN LabelDotCount(ReleaseLabel(extractReleaseName(branch)), commitCount)
    ELSE IF branchType = "hotfix" THEN LabelDotCount(<<"h","o","t","f","i","x">>, commitCount)
    ELSE LabelDotCount(SanitizeBranchName(branch), commitCount)

\* Faulty variant of applyBranchSpecificVersioning: the build metadata is
\* written under the same commitCount > 0 guard as the pre-release.
applyBranchSpecificVersioningGuardedBuild(version, branch, branchType, commitCount, sha) ==
    IF commitCount = 0 THEN version
    ELSE IF branchType = "main"
    THEN [version EXCEPT !.Build = CountPlusSHA(commitCount, sha)]
    ELSE [version EXCEPT !.PreRelease = BranchPreRelease(branch, branchType, commitCount),
                         !.Build = CountPlusSHA(commitCount, sha)]

applyBranchSpecificVersioning(version, branch, branchType, commitCount, sha) ==
    IF branchType = "main"
    THEN [version EXCEPT !.Build = CountPlusSHA(commitCount, sha)]
    ELSE [version EXCEPT
             !.PreRelease = IF commitCount > 0
                            THEN BranchPreRelease(branch, branchType, commitCount)
                            ELSE @,
             !.Build = CountPlusSHA(commitCount, sha)]

\* "Find the highest base version": the loop over baseVersions[i..] with the
\* best candidate so far.
RECURSIVE HighestFrom(_, _, _)
HighestFrom(baseVersions, i, baseVersion) ==
    IF i > Len(baseVersions) THEN baseVersion
    ELSE IF GreaterThan(baseVersions[i].SemanticVersion, baseVersion.SemanticVersion)
         THEN HighestFrom(baseVersions, i + 1, baseVersions[i])
         ELSE HighestFrom(baseVersions, i + 1, baseVersion)

\* The base version CalculateVersion selects from a pool; the 0.0.0 "fallback"
\* of the nil case when the pool is empty.
HighestBaseVersion(baseVersions) ==
    IF Len(baseVersions) = 0
    THEN BaseVersion(Version(0, 0, 0, << >>, << >>), "fallback", << >>, TRUE, <<"f","a","l","l","b","a","c","k">>)
    ELSE HighestFrom(baseVersions, 2, baseVersions[1])

\* Whether the policy lets CalculateVersion apply its increment.
IncrementAllowed(branchConfig) ==
    \/ branchConfig.PreventIncrement.isNil
    \/ (/\ ~branchConfig.PreventIncrement.OfMergedBranch
        /\ ~branchConfig.PreventIncrement.WhenCurrentCommitTagged)

\* The bump a forced increment asks for.
ForcedIncrement(version, forceIncrement) ==
    IF forceIncrement = "major" THEN IncrementMajor(version)
    ELSE IF forceIncrement = "minor" THEN IncrementMinor(version)
    ELSE IF forceIncrement = "patch" THEN IncrementPatch(version)
    ELSE version

\* The bump the policy's increment strategy asks for.
PolicyIncrement(version, increment) ==
    IF increment = "Major" THEN IncrementMajor(version)
    ELSE IF increment = "Minor" THEN IncrementMinor(version)
    ELSE IF increment \in {"Patch", ""} THEN IncrementPatch(version)
    ELSE version

\* Faulty variant of ApplyIncrement: the prevent-increment test guards the
\* forced increment too.
ApplyIncrementForcedIfAllowed(version, forceIncrement, branchConfig) ==
    IF ~IncrementAllowed(branchConfig) THEN version
    ELSE IF forceIncrement # "" THEN ForcedIncrement(version, forceIncrement)
    ELSE PolicyIncrement(version, branchConfig.Increment)

\* Faulty variant of ApplyIncrement: the policy's strategy is not looked at,
\* every unforced run bumps the patch.
ApplyIncrementAlwaysPatch(version, forceIncrement, branchConfig) ==
    IF forceIncrement # "" THEN ForcedIncrement(version, forceIncrement)
    ELSE IF IncrementAllowed(branchConfig) THEN IncrementPatch(version)
    ELSE version

\* "Apply increments based on configuration": the forced increment, or else
\* the policy's increment unless a prevent-increment flag is set.
ApplyIncrement(version, forceIncrement, branchConfig) ==
    IF forceIncrement # "" THEN ForcedIncrement(version, forceIncrement)
    ELSE IF IncrementAllowed(branchConfig) THEN PolicyIncrement(version, branchConfig.Increment)
    ELSE version

\* The mask of GetDefaultStrategies, whatever the next version.
StrategiesMaskDefaultStrategies(nextVersion) ==
    {"Fallback", "ConfiguredNextVersion", "MergeMessage", "TaggedCommit",
     "TrackReleaseBranches", "VersionInBranchName"}

\* Every registered strategy enabled, whatever the next version.
StrategiesMaskEveryStrategy(nextVersion) ==
    {strategyOrder[k] : k \in 1..Len(strategyOrder)}

\* The strategies CalculateVersion enables.
StrategiesMask(nextVersion) ==
    (IF nextVersion # << >> THEN {"ConfiguredNextVersion"} ELSE {})
    \cup {"TaggedCommit", "MergeMessage", "Fallback"}

\* The record of one call of CalculateVersion: its arguments (branch already
\* resolved), what it computed on the way, and the version or error returned.
FailedRun(branch, workflow, forceIncrement, nextVersion, branchConfig) ==
    [err |-> TRUE, branch |-> branch, workflow |-> workflow,
     forceIncrement |-> forceIncrement, nextVersion |-> nextVersion,
     branchConfig |-> branchConfig, baseVersions |-> << >>,
     baseVersion |-> BaseVersion(Version(0, 0, 0, << >>, << >>), "", << >>, FALSE, << >>),
     incremented |-> Version(0, 0, 0, << >>, << >>),
     branchType |-> "", commitCount |-> 0, sha |-> << >>,
     version |-> Version(0, 0, 0, << >>, << >>)]

\* The rest of CalculateVersion once the base version is selected.
WithBaseVersion(branch, workflow, forceIncrement, nextVersion, branchConfig, pool, baseVersion, incremented, branchType, commitCount, sha) ==
    [err |-> FALSE, branch |-> branch, workflow |-> workflow,
     forceIncrement |-> forceIncrement, nextVersion |-> nextVersion,
     branchConfig |-> branchConfig, baseVersions |-> pool.baseVersions,
     baseVersion |-> baseVersion, incremented |-> incremented,
     branchType |-> branchType, commitCount |-> commitCount, sha |-> sha,
     version |-> applyBranchSpecificVersioning(incremented, branch, branchType,
                                               commitCount, sha)]

\* The increments and the branch-specific versioning on the selected base.
FromBaseVersion(branch, workflow, forceIncrement, nextVersion, branchConfig, pool, baseVersion) ==
    WithBaseVersion(branch, workflow, forceIncrement, nextVersion, branchConfig, pool,
                    baseVersion,
                    ApplyIncrement(Copy(baseVersion.SemanticVersion), forceIncrement,
                                   branchConfig),
                    getBranchType(branch, workflow),
                    GetCommitCountSinceTag(<< >>),
                    GetShortSHA)

\* CalculateVersion on what the strategy manager returned.
FromBaseVersions(branch, workflow, forceIncrement, nextVersion, branchConfig, pool) ==
    IF pool.err
    THEN FailedRun(branch, workflow, forceIncrement, nextVersion, branchConfig)
    ELSE FromBaseVersion(branch, workflow, forceIncrement, nextVersion, branchConfig, pool,
                         HighestBaseVersion(pool.baseVersions))

\* CalculateVersion from the strategies on, for the policy that
\* GetBranchConfiguration returned.
CalculateVersionFor(c, branch, workflow, forceIncrement, nextVersion, branchConfig) ==
    FromBaseVersions(branch, workflow, forceIncrement, nextVersion, branchConfig,
                     GetBaseVersions(VersionContext(c, branch, GetSHA, branchConfig,
                                                    StrategiesMask(nextVersion), nextVersion)))

\* CalculateVersion on the resolved branch name.
CalculateVersionOn(c, resolved, workflow, forceIncrement, nextVersion) ==
    {CalculateVersionFor(c, resolved, workflow, forceIncrement, nextVersion, branchConfig) :
        branchConfig \in GetBranchConfiguration(c, resolved)}

\* Calculator.CalculateVersion: the set of records a call can produce, one for
\* each policy GetBranchConfiguration can return.
CalculateVersion(c, branch, workflow, forceIncrement, nextVersion) ==
    CalculateVersionOn(c, IF branch = << >> THEN GetCurrentBranch ELSE branch,
                       workflow, forceIncrement, nextVersion)

(***************************************************************************)
(* pkg/gitversion and cmd: one invocation of the tool.                     *)
(***************************************************************************)
\* The command lines of the model.
TargetBranches ==
    { << >>, <<"d","e","v","e","l","o","p">>, <<"f","e","a","t","u","r","e","/","u","s","e","r","-","a","u","t","h">>, <<"r","e","l","e","a","s","e","/","0",".","0",".","2","-","a","l","p","h","a">>,
      <<"h","o","t","f","i","x","/","c","r","i","t","i","c","a","l">>, <<"s","u","p","p","o","r","t","/","1",".","x">>, <<"c","u","s","t","o","m","-","b","r","a","n","c","h">> }

Workflows == { "gitflow", "githubflow", "trunk" }

ForceIncrements == { "", "major", "minor", "patch" }

NextVersions == { << >>, <<"2",".","0",".","0">>, <<"2",".","1",".","0","-","b","e","t","a","+","7">>, <<"n","e","x","t">> }

Options ==
    [ConfigFile : ConfigPaths, TargetBranch : TargetBranches, Workflow : Workflows,
     ForceIncrement : ForceIncrements, NextVersion : NextVersions]

\* GitVersion.Calculate on the configuration c that New loaded.
CalculateWith(c, o) ==
    CalculateVersion(c,
                     IF o.TargetBranch = << >> THEN GetCurrentBranch ELSE o.TargetBranch,
                     o.Workflow, o.ForceIncrement,
                     IF o.NextVersion = << >> /\ c.NextVersion # << >>
                     THEN c.NextVersion ELSE o.NextVersion)

\* GitVersion.Calculate up to the formatter.
Calculate(o) == CalculateWith(LoadConfig(o.ConfigFile), o)

NoOptions ==
    [ConfigFile |-> "", TargetBranch |-> << >>, Workflow |-> "", ForceIncrement |-> "",
     NextVersion |-> << >>]

NoRun == FailedRun(<< >>, "", "", << >>, DefaultBranchConfiguration)

(***************************************************************************)
(* The state machine: the repository grows between invocations; an         *)
(* invocation computes a version from it; the same command line can be     *)
(* run again on the same repository.                                       *)
(***************************************************************************)
Init ==
    /\ log = << >>
    /\ tagAt = [i \in 1..Len(TagNames) |-> 0]
    /\ pc = "idle"
    /\ opts = NoOptions
    /\ run = NoRun

\* git commit, or git merge when mergedBranch is not empty; the first commit
\* of a repository is not a merge.
Commit(mergedBranch) ==
    /\ pc = "idle"
    /\ Len(log) < MaxCommits
    /\ (Len(log) = 0 => mergedBranch = << >>)
    /\ log' = Append(log, [mergedBranch |-> mergedBranch])
    /\ UNCHANGED << tagAt, pc, opts, run >>

\* git tag <name> <commit>
CreateTag(i, commit) ==
    /\ pc = "idle"
    /\ tagAt[i] = 0
    /\ commit \in 1..Len(log)
    /\ Cardinality({j \in 1..Len(TagNames) : tagAt[j] > 0}) < MaxTags
    /\ tagAt' = [tagAt EXCEPT ![i] = commit]
    /\ UNCHANGED << log, pc, opts, run >>

\* main: gitversion.New and GitVersion.Calculate for one command line.
Invoke(o) ==
    /\ pc = "idle"
    /\ opts' = o
    /\ run' \in Calculate(o)
    /\ pc' = "done"
    /\ UNCHANGED << log, tagAt >>

\* The same command line again, on the unchanged repository.
Rerun ==
    /\ pc = "done"
    /\ run' \in Calculate(opts)
    /\ UNCHANGED << log, tagAt, pc, opts >>

\* The process exits.
Exit ==
    /\ pc = "done"
    /\ pc' = "idle"
    /\ opts' = NoOptions
    /\ run' = NoRun
    /\ UNCHANGED << log, tagAt >>

Next ==
    \/ \E mergedBranch \in MergedBranches : Commit(mergedBranch)
    \/ \E i \in 1..Len(TagNames), commit \in 1..MaxCommits : CreateTag(i, commit)
    \/ \E o \in Options : Invoke(o)
    \/ Exit

Spec == Init /\ [][Next]_vars

\* The invocations of Spec, each possibly repeated before the process exits.
NextRerun == Next \/ Rerun

SpecRerun == Init /\ [][NextRerun]_vars

(***************************************************************************)
(* Properties.                                                             *)
(***************************************************************************)
\* An invocation has returned a version.
Returned == pc = "done" /\ ~run.err

Triple(v) == << v.Major, v.Minor, v.Patch >>

NoTags == \A i \in 1..Len(TagNames) : tagAt[i] = 0

NoMerges == \A k \in 1..Len(log) : log[k].mergedBranch = << >>

\* HEAD carries a tag.
CurrentCommitTagged == HasCommits /\ \E i \in 1..Len(TagNames) : tagAt[i] = Len(log)

\* The selected base version is the one TaggedCommit made from this tag.
BaseIsTag(tag) == run.baseVersion.Source = [text |-> "Tag", ref |-> tag]

\* The triple after exactly one bump of the named part.
BumpedTriple(v, part) ==
    IF part = "major" THEN << v.Major + 1, 0, 0 >>
    ELSE IF part = "minor" THEN << v.Major, v.Minor + 1, 0 >>
    ELSE IF part = "patch" THEN << v.Major, v.Minor, v.Patch + 1 >>
    ELSE Triple(v)

\* C1: for a fixed repository, configuration and command line, running the
\* tool again returns the same outcome (the same error, or the same version),
\* whatever order the branch-policy map is iterated in.
C1_RerunReturnsSameVersion ==
    [][(pc = "done" /\ pc' = "done" /\ opts' = opts /\ log' = log /\ tagAt' = tagAt)
          => (run'.err = run.err /\ run'.version = run.version)]_vars

\* C2: when the next version 2.0.0 is given explicitly and a tag with a
\* greater version is reachable from HEAD, the selected base version is 2.0.0.
C2_ExplicitNextVersionIsTheBase ==
    (/\ Returned
     /\ opts.NextVersion = <<"2",".","0",".","0">>
     /\ run.nextVersion = <<"2",".","0",".","0">>
     /\ \E i \in 1..Len(TagNames) :
           /\ tagAt[i] > 0
           /\ Parse(TagNames[i]).ok
           /\ Compare(Parse(TagNames[i]).v, Parse(<<"2",".","0",".","0">>).v) > 0)
    => Triple(run.baseVersion.SemanticVersion) = << 2, 0, 0 >>

\* C3: with the default configuration (next-version 1.0.0), no --next-version,
\* no forced increment, no tags and no merges, on main or master, the
\* resulting major.minor.patch is 1.0.0.
C3_ConfiguredNextVersionNotIncremented ==
    (/\ Returned
     /\ opts.ConfigFile = ""
     /\ opts.NextVersion = << >>
     /\ opts.ForceIncrement = ""
     /\ run.branch \in { <<"m","a","i","n">>, <<"m","a","s","t","e","r">> }
     /\ NoTags
     /\ NoMerges)
    => Triple(run.version) = << 1, 0, 0 >>

\* C4: with the default configuration, no --next-version, v0.1.0 the only
\* tag, one commit after the tag and --major, the resulting
\* major.minor.patch is 1.0.0.
C4_ForcedMajorAfterFirstTag ==
    (/\ Returned
     /\ opts.ConfigFile = ""
     /\ opts.NextVersion = << >>
     /\ opts.ForceIncrement = "major"
     /\ run.branch = <<"m","a","i","n">>
     /\ Len(log) = 2
     /\ NoMerges
     /\ \A i \in 1..Len(TagNames) :
           tagAt[i] = (IF TagNames[i] = <<"v","0",".","1",".","0">> THEN 1 ELSE 0))
    => Triple(run.version) = << 1, 0, 0 >>

\* C5: a forced increment of major, minor or patch is exactly that one bump of
\* the selected base version, whatever the branch policy's increment strategy
\* and prevent-increment flags; with no next version, base tag v0.1.0 and a
\* forced major the triple is 1.0.0.
C5_ForcedIncrementUnconditional ==
    (Returned /\ run.forceIncrement \in {"major", "minor", "patch"})
    => /\ Triple(run.version) = BumpedTriple(run.baseVersion.SemanticVersion, run.forceIncrement)
       /\ (run.forceIncrement = "major" /\ run.nextVersion = << >> /\ BaseIsTag(<<"v","0",".","1",".","0">>))
             => Triple(run.version) = << 1, 0, 0 >>

\* C5 happens: a forced major on base tag v0.1.0 under a policy whose
\* prevent-increment flag is set gives 1.0.0.
C5_Witness ==
    /\ Returned
    /\ run.forceIncrement = "major"
    /\ run.nextVersion = << >>
    /\ BaseIsTag(<<"v","0",".","1",".","0">>)
    /\ run.branchConfig.PreventIncrement.WhenCurrentCommitTagged
    /\ run.branchConfig.Increment = "Minor"
    /\ Triple(run.version) = << 1, 0, 0 >>

\* The situation a set prevent-increment flag of the policy is about holds in
\* this run: HEAD is tagged, or the base version comes from a merged branch.
PreventSituationHolds ==
    \/ (run.branchConfig.PreventIncrement.WhenCurrentCommitTagged /\ CurrentCommitTagged)
    \/ (run.branchConfig.PreventIncrement.OfMergedBranch
           /\ run.baseVersion.Source.text = "Merge message")

\* C6: with no forced increment, a policy with a prevent-increment flag set
\* still gets its configured increment in a run where the flag's situation
\* does not hold.
C6_PreventIncrementIsSituational ==
    (/\ Returned
     /\ run.forceIncrement = ""
     /\ ~run.branchConfig.PreventIncrement.isNil
     /\ \/ run.branchConfig.PreventIncrement.WhenCurrentCommitTagged
        \/ run.branchConfig.PreventIncrement.OfMergedBranch
     /\ ~PreventSituationHolds
     /\ run.branchConfig.Increment \in {"Major", "Minor", "Patch"})
    => Triple(run.version) =
          BumpedTriple(run.baseVersion.SemanticVersion,
                       IF run.branchConfig.Increment = "Major" THEN "major"
                       ELSE IF run.branchConfig.Increment = "Minor" THEN "minor"
                       ELSE "patch")

\* No prevent-increment flag of the policy is set.
NoPreventFlag(branchConfig) ==
    \/ branchConfig.PreventIncrement.isNil
    \/ (/\ ~branchConfig.PreventIncrement.OfMergedBranch
        /\ ~branchConfig.PreventIncrement.WhenCurrentCommitTagged
        /\ ~branchConfig.PreventIncrement.WhenBranchMerged)

C8_MainHasNoPreRelease ==
    (Returned /\ run.branchType = "main") => run.version.PreRelease = << >>

BranchTypes == {"main", "develop", "feature", "release", "hotfix", "support", "unknown"}

\* C9: for every branch type and every commit count, 0 included, the build
\* metadata of the returned version is the count in decimal, "+", the short
\* SHA, and nothing of the base's build metadata.
C9_BuildIsCountPlusSHA ==
    Returned
    => /\ run.branchType \in BranchTypes
       /\ run.commitCount = Len(log)
       /\ run.sha = GetShortSHA
       /\ run.version.Build = FormatInt(run.commitCount) \o <<"+">> \o run.sha

\* C9 happens: with no commit counted, a base that carries build metadata
\* ends with the build 0+<sha>.
C9_Witness ==
    /\ Returned
    /\ run.commitCount = 0
    /\ run.baseVersion.SemanticVersion.Build = <<"7">>
    /\ run.version.Build = <<"0","+","u","n","k","n","o","w","n">>

\* The text after the last '/' of a branch name (all of it without a '/').
LastSegment(branch) == SubSeq(branch, LastIndex(branch, "/") + 1, Len(branch))

\* A text with '-' in place of every character that is no letter or digit.
Dashed(s) == [i \in 1..Len(s) |-> IF s[i] \in AlnumChars THEN s[i] ELSE "-"]

\* The pre-release label of a branch type, as the specification states it.
LabelOf(branch, branchType) ==
    IF branchType = "develop" THEN <<"a","l","p","h","a">>
    ELSE IF branchType = "hotfix" THEN <<"h","o","t","f","i","x">>
    ELSE IF branchType = "feature" THEN Dashed(LastSegment(branch))
    ELSE Dashed(branch)

\* C10: for Develop, Hotfix, Feature, Support and Unknown the pre-release is
\* "<label>.<count>" when count > 0 and is left as it was when count = 0;
\* feature/user-auth gives user-auth.<count>.
C10_PreReleaseIsLabelDotCount ==
    (Returned /\ run.branchType \in {"develop", "hotfix", "feature", "support", "unknown"})
    => /\ run.commitCount > 0
             => run.version.PreRelease =
                   LabelOf(run.branch, run.branchType) \o <<".">> \o FormatInt(run.commitCount)
       /\ run.commitCount = 0
             => run.version.PreRelease = run.incremented.PreRelease
       /\ (run.commitCount > 0 /\ run.branchType = "feature" /\ run.branch = <<"f","e","a","t","u","r","e","/","u","s","e","r","-","a","u","t","h">>)
             => run.version.PreRelease = <<"u","s","e","r","-","a","u","t","h",".">> \o FormatInt(run.commitCount)

\* C10 happens: feature/user-auth with two commits gets user-auth.2.
C10_Witness ==
    /\ Returned
    /\ run.branchType = "feature"
    /\ run.branch = <<"f","e","a","t","u","r","e","/","u","s","e","r","-","a","u","t","h">>
    /\ run.commitCount = 2
    /\ run.version.PreRelease = <<"u","s","e","r","-","a","u","t","h",".","2">>

(***************************************************************************)
(* Direct calls of the package functions, as the unit tests make them.     *)
(* In the specifications below opts holds the arguments of the call and    *)
(* run what it returned; the repository is empty and stays so.             *)
(***************************************************************************)
\* The largest commit count handed to applyBranchSpecificVersioning.
MaxCount == 3

\* The calls: versions without and with labels, branch names of every
\* kind, counts from 0, two short SHAs; the branch type is the one
\* getBranchType gives the branch under the workflow.
VersioningCalls ==
    [fn : {"applyBranchSpecificVersioning"},
     version : { Version(1, 2, 0, << >>, << >>), Version(0, 0, 2, <<"r","c">>, <<"7">>) },
     branch : { <<"m","a","i","n">>, <<"d","e","v","e","l","o","p">>, <<"f","e","a","t","u","r","e","/","u","s","e","r","-","a","u","t","h">>, <<"h","o","t","f","i","x","/","c","r","i","t","i","c","a","l">>, <<"s","u","p","p","o","r","t","/","1",".","x">>,
                <<"c","u","s","t","o","m","-","b","r","a","n","c","h">>, <<"r","e","l","e","a","s","e","/","0",".","0",".","2","-","a","l","p","h","a">>, <<"r","e","l","e","a","s","e","/","1",".","2",".","0">>, <<"r","e","l","e","a","s","e","/","1",".","0","-","r","c",".","1">>,
                <<"r","e","l","e","a","s","e","/","1",".","0","-">>, <<"r","e","l","e","a","s","e","/","t","e","a","m","-","a","/","2",".","0">>, <<"r","e","l","e","a","s","e","/","v","1","-","R","C","_","2">> },
     workflow : Workflows,
     commitCount : 0..MaxCount,
     sha : { <<"a","b","c","1","2","3","4">>, <<"u","n","k","n","o","w","n">> }]

\* c.applyBranchSpecificVersioning(version, branch, branchType, commitCount, sha)
Versioning ==
    /\ pc = "idle"
    /\ opts.fn = "applyBranchSpecificVersioning"
    /\ run' = [branchType |-> getBranchType(opts.branch, opts.workflow),
               version |-> applyBranchSpecificVersioning(
                               opts.version, opts.branch,
                               getBranchType(opts.branch, opts.workflow),
                               opts.commitCount, opts.sha)]
    /\ pc' = "done"
    /\ UNCHANGED << log, tagAt, opts >>

\* A branches section written to try the order of the lookup: every policy
\* has its key as label; "trunk" accepts main by regex, "rel" accepts
\* release/... by regex while "release" does so by prefix, and
\* "hotfix/critical" is the full name of a branch that "hotfix" has as prefix.
LayeredBranches ==
    (<<"m","a","i","n">> :> BranchConfiguration("main", "Patch", NilPreventIncrement, FALSE, << >>, FALSE, TRUE))
    @@ (<<"t","r","u","n","k">> :> BranchConfiguration("trunk", "Major", NilPreventIncrement, FALSE,
                  <<"^","(","m","a","s","t","e","r","|","m","a","i","n",")","$">>, FALSE, TRUE))
    @@ (<<"r","e","l","e","a","s","e">> :> BranchConfiguration("release", "Minor", NilPreventIncrement, FALSE,
                  << >>, FALSE, FALSE))
    @@ (<<"r","e","l">> :> BranchConfiguration("rel", "None", NilPreventIncrement, FALSE,
                  <<"^","r","e","l","e","a","s","e","s","?","[","\\","/","-","]">>, FALSE, FALSE))
    @@ (<<"h","o","t","f","i","x">> :> BranchConfiguration("hotfix", "Patch", NilPreventIncrement, FALSE,
                  << >>, FALSE, FALSE))
    @@ (<<"h","o","t","f","i","x","/","c","r","i","t","i","c","a","l">> :> BranchConfiguration("hotfix/critical", "Minor",
                  NilPreventIncrement, FALSE, << >>, FALSE, FALSE))

\* The branches section of a configuration file that gives main no body:
\* "branches: {main: null, develop: {regex: ..., increment: Minor}}".
NullEntryBranches ==
    (<<"m","a","i","n">> :> NilBranchConfiguration)
    @@ (<<"d","e","v","e","l","o","p">> :> BranchConfiguration("alpha", "Minor", NilPreventIncrement, FALSE,
                  <<"^","d","e","v","(","e","l","o","p",")","?","(","m","e","n","t",")","?","$">>, FALSE, FALSE))

\* The calls of GetBranchConfiguration: the default, a user's, the layered,
\* an empty branches section and one with a null entry, and branch names of
\* every kind.
LookupCalls ==
    [fn : {"GetBranchConfiguration"},
     branches : { getDefaultBranchConfigurations, CustomBranches, LayeredBranches,
                  NullEntryBranches, << >> },
     branchName : { << >>, <<"m","a","i","n">>, <<"m","a","s","t","e","r">>, <<"d","e","v","e","l","o","p">>, <<"d","e","v">>, <<"r","e","l","e","a","s","e","/","1",".","0">>, <<"r","e","l","e","a","s","e","s","/","2",".","0">>,
                    <<"r","e","l","e","a","s","e">>, <<"f","e","a","t","u","r","e","/","u","s","e","r","-","a","u","t","h">>, <<"h","o","t","f","i","x","/","c","r","i","t","i","c","a","l">>, <<"h","o","t","f","i","x","/","o","t","h","e","r">>,
                    <<"s","u","p","p","o","r","t","/","1",".","x">>, <<"p","u","l","l","/","7">>, <<"c","u","s","t","o","m","-","b","r","a","n","c","h">>, <<"H","E","A","D">>,
                    <<"r","e","l","e","a","s","e","-","1",".","0">>, <<"r","e","l","e","a","s","e","/">>, <<"d","e","v","m","e","n","t">>, <<"p","u","l","l","-","r","e","q","u","e","s","t","s","/","7">>,
                    <<"p","u","l","l","-","r","e","q","u","e","s","t","/","7">>, <<"p","r","/","7">>, <<"s","u","p","p","o","r","t","/","r","e","l","e","a","s","e","/","2">>, <<"f","e","a","t","u","r","e","/","h","o","t","f","i","x","/","1">> }]

\* c.GetBranchConfiguration(branchName)
Lookup ==
    /\ pc = "idle"
    /\ opts.fn = "GetBranchConfiguration"
    /\ run' \in {[policy |-> p] :
                   p \in GetBranchConfiguration([Branches |-> opts.branches], opts.branchName)}
    /\ pc' = "done"
    /\ UNCHANGED << log, tagAt, opts >>

(***************************************************************************)
(* internal/git: commit-message analysis.                                  *)
(***************************************************************************)
\* The case folding of the (?i) flag, on the letters A..Z.
ToLower(s) ==
    [k \in 1..Len(s) |->
        IF s[k] \in {AsciiTable[i] : i \in 34..59} THEN AsciiTable[Ord(s[k]) + 1] ELSE s[k]]

\* MatchString of an unanchored pattern head\s*(w1|w2|...) on a folded text:
\* head somewhere, then any run of white space, then one of the words.
MatchGap(s, head, words) ==
    \E i \in 1..Len(s) :
        /\ HasPrefix(SubSeq(s, i, Len(s)), head)
        /\ \E j \in (i + Len(head))..(Len(s) + 1) :
              /\ \A k \in (i + Len(head))..(j - 1) : s[k] \in {" ", "\t", "\n", "\f", "\r"}
              /\ \E w \in words : HasPrefix(SubSeq(s, j, Len(s)), w)

\* MatchString of ^feat(\(.+\))?tail on a folded text: feat at the start of
\* the text, an optional parenthesised scope of one or more characters other
\* than a line feed, then the tail.
MatchFeat(s, tail) ==
    /\ HasPrefix(s, <<"f","e","a","t">>)
    /\ \/ HasPrefix(SubSeq(s, 5, Len(s)), tail)
       \/ /\ HasPrefix(SubSeq(s, 5, Len(s)), <<"(">>)
          /\ \E k \in 7..Len(s) :
                /\ s[k] = ")"
                /\ \A q \in 6..(k - 1) : s[q] # "\n"
                /\ HasPrefix(SubSeq(s, k + 1, Len(s)), tail)

\* Repository.detectIncrementFromMessage, with the five patterns in the
\* order the code tries them.
detectIncrementFromMessage(message) ==
    IF \/ MatchGap(ToLower(message), <<"+","s","e","m","v","e","r",":">>, { <<"b","r","e","a","k","i","n","g">>, <<"m","a","j","o","r">> })
       \/ MatchGap(ToLower(message), <<"b","r","e","a","k","i","n","g">>, { <<"c","h","a","n","g","e">> })
       \/ MatchFeat(ToLower(message), <<"!",":">>)
    THEN "major"
    ELSE IF \/ MatchGap(ToLower(message), <<"+","s","e","m","v","e","r",":">>, { <<"f","e","a","t","u","r","e">>, <<"m","i","n","o","r">> })
            \/ MatchFeat(ToLower(message), <<":">>)
    THEN "minor"
    ELSE "patch"

\* The loop of analyzeCommitMessages from message i on, with the increment
\* found so far.
RECURSIVE AnalyzeFrom(_, _, _)
AnalyzeFrom(messages, i, increment) ==
    IF i > Len(messages) THEN increment
    ELSE IF detectIncrementFromMessage(messages[i]) = "major" THEN "major"
    ELSE IF detectIncrementFromMessage(messages[i]) = "minor" /\ increment # "major"
    THEN AnalyzeFrom(messages, i + 1, "minor")
    ELSE AnalyzeFrom(messages, i + 1, increment)

\* Faulty variant of analyzeCommitMessages: the first message decides.
analyzeCommitMessagesFirstDecides(messages) ==
    IF Len(messages) = 0 THEN "patch" ELSE detectIncrementFromMessage(messages[1])

\* Repository.analyzeCommitMessages
analyzeCommitMessages(messages) == AnalyzeFrom(messages, 1, "patch")

MaxMessages == 3

\* The calls of analyzeCommitMessages: up to MaxMessages messages, those of
\* TestIncrementType and some that come close to a trigger.
MessageCalls ==
    [fn : {"analyzeCommitMessages"},
     messages : UNION {[1..n -> { <<"f","i","x",":"," ","b","u","g">>, <<"f","e","a","t","!",":"," ","a","p","i">>, <<"F","e","a","t","(","a","p","i",")",":"," ","v","2">>, <<"r","e","f","e","a","t","!",":"," ","x">>,
                                  <<"f","i","x"," ","+","S","e","m","V","e","r",":","b","r","e","a","k","i","n","g">>, <<"u","p"," ","+","s","e","m","v","e","r",":"," "," ","m","i","n","o","r">>,
                                  <<"B","R","E","A","K","I","N","G">> \o << "\n" >> \o <<"C","H","A","N","G","E",":"," ","x">>,
                                  <<"f","e","a","t","(","a">> \o << "\n" >> \o <<"b",")","!",":"," ","x">> }] : n \in 0..MaxMessages}]

\* repo.analyzeCommitMessages(messages)
Analyze ==
    /\ pc = "idle"
    /\ opts.fn = "analyzeCommitMessages"
    /\ run' = [increment |-> analyzeCommitMessages(opts.messages)]
    /\ pc' = "done"
    /\ UNCHANGED << log, tagAt, opts >>

(***************************************************************************)
(* internal/version: the selection of the base version.                    *)
(***************************************************************************)
\* The loop of FindBestBaseVersion over baseVersions[i..] with the best
\* candidate so far.
RECURSIVE FindBestFrom(_, _, _)
FindBestFrom(baseVersions, i, best) ==
    IF i > Len(baseVersions) THEN best
    ELSE IF Compare(baseVersions[i].SemanticVersion, best.SemanticVersion) > 0
    THEN FindBestFrom(baseVersions, i + 1, baseVersions[i])
    ELSE IF /\ Compare(baseVersions[i].SemanticVersion, best.SemanticVersion) = 0
            /\ best.SemanticVersion.PreRelease # << >>
            /\ baseVersions[i].SemanticVersion.PreRelease = << >>
    THEN FindBestFrom(baseVersions, i + 1, baseVersions[i])
    ELSE FindBestFrom(baseVersions, i + 1, best)

\* StrategyManager.FindBestBaseVersion; nil for an empty pool.
FindBestBaseVersion(baseVersions) ==
    IF Len(baseVersions) = 0 THEN [isNil |-> TRUE]
    ELSE FindBestFrom(baseVersions, 2, baseVersions[1])

MaxPool == 3

\* The pools handed to the selection: up to MaxPool candidates, among them
\* equal versions from different sources and versions that differ in the
\* pre-release label or the build metadata only.
SelectionCalls ==
    [fn : {"FindBestBaseVersion"},
     baseVersions : UNION {[1..n -> {
         BaseVersion(Version(1, 2, 0, << >>, << >>), "Tag", <<"v","1",".","2",".","0">>, TRUE, <<"a","b","c","1","2","3","1","d","e","f">>),
         BaseVersion(Version(1, 2, 0, << >>, <<"5">>), "Configured next version", <<"1",".","2",".","0","+","5">>, FALSE, << >>),
         BaseVersion(Version(1, 2, 0, <<"r","c">>, << >>), "Tag", <<"v","1",".","2",".","0","-","r","c">>, TRUE, <<"a","b","c","1","2","3","2","d","e","f">>),
         BaseVersion(Version(1, 2, 0, <<"b","e","t","a">>, << >>), "Merge message", <<"r","e","l","e","a","s","e","/","1",".","2",".","0","-","b","e","t","a">>,
                     TRUE, <<"a","b","c","1","2","3","2","d","e","f">>),
         BaseVersion(Version(1, 10, 0, <<"a","l","p","h","a">>, << >>), "Tag", <<"v","1",".","1","0",".","0","-","a","l","p","h","a">>, TRUE, <<"a","b","c","1","2","3","1","d","e","f">>),
         BaseVersion(Version(0, 0, 0, << >>, << >>), "Fallback strategy", << >>, TRUE, << >>) }] :
                           n \in 0..MaxPool}]

\* The selection of CalculateVersion and sm.FindBestBaseVersion on one pool.
Select ==
    /\ pc = "idle"
    /\ opts.fn = "FindBestBaseVersion"
    /\ run' = [baseVersion |-> HighestBaseVersion(opts.baseVersions),
               best |-> FindBestBaseVersion(opts.baseVersions)]
    /\ pc' = "done"
    /\ UNCHANGED << log, tagAt, opts >>

(***************************************************************************)
(* pkg/semver: direct calls on versions.                                   *)
(***************************************************************************)
\* Faulty variant of String: the build metadata is joined with '-'.
StringBuildAfterDash(v) ==
    FormatInt(v.Major) \o <<".">> \o FormatInt(v.Minor) \o <<".">> \o FormatInt(v.Patch)
    \o (IF v.PreRelease # << >> THEN <<"-">> \o v.PreRelease ELSE << >>)
    \o (IF v.Build # << >> THEN <<"-">> \o v.Build ELSE << >>)

\* Version.String
String(v) ==
    FormatInt(v.Major) \o <<".">> \o FormatInt(v.Minor) \o <<".">> \o FormatInt(v.Patch)
    \o (IF v.PreRelease # << >> THEN <<"-">> \o v.PreRelease ELSE << >>)
    \o (IF v.Build # << >> THEN <<"+">> \o v.Build ELSE << >>)

\* The calls on versions: String and the increments on one version, Compare
\* on two.  The versions have one- and two-digit numbers, pre-release labels
\* with '.' and '-', and builds with '+', among them the engine's
\* <count>+<sha>.
SemverCalls ==
    LET versions == [Major : {0, 1}, Minor : {2, 10}, Patch : {0, 3},
                     PreRelease : { << >>, <<"r","c">>, <<"r","c",".","1">>, <<"a","l","p","h","a","-","2">> },
                     Build : { << >>, <<"3","+","a","b","c","1","2","3","4">>, <<"0","+","u","n","k","n","o","w","n">>, <<"-",".","5">> }]
    IN  [fn : {"String", "Increment"}, v : versions, other : {Version(0, 0, 0, << >>, << >>)}]
        \cup [fn : {"Compare"}, v : versions, other : versions]

\* semver.Parse(v.String())
RoundTrip ==
    /\ pc = "idle"
    /\ opts.fn = "String"
    /\ run' = [text |-> String(opts.v), parsed |-> Parse(String(opts.v))]
    /\ pc' = "done"
    /\ UNCHANGED << log, tagAt, opts >>

\* v.Compare(other) and other.Compare(v)
CompareVersions ==
    /\ pc = "idle"
    /\ opts.fn = "Compare"
    /\ run' = [result |-> Compare(opts.v, opts.other), reverse |-> Compare(opts.other, opts.v)]
    /\ pc' = "done"
    /\ UNCHANGED << log, tagAt, opts >>

\* copy := v.Copy() followed by one increment of the copy.  heap[1] is the
\* Version v points to, heap[2] the one Copy allocated; the increment writes
\* through the pointer to the copy.
Increment(part) ==
    /\ pc = "idle"
    /\ opts.fn = "Increment"
    /\ run' = [part |-> part,
               heap |-> [<< opts.v, Copy(opts.v) >> EXCEPT
                            ![2] = CASE part = "major" -> IncrementMajor(@)
                                     [] part = "minor" -> IncrementMinor(@)
                                     [] part = "patch" -> IncrementPatch(@)]]
    /\ pc' = "done"
    /\ UNCHANGED << log, tagAt, opts >>

(***************************************************************************)
(* internal/git: the increment detected from the commits since a tag.      *)
(***************************************************************************)
\* git log --oneline <tag>..HEAD (HEAD when tag is empty): one line for each
\* commit, newest first, the abbreviated object name, a space and the
\* subject.  A failure of git (no commit, no such tag) is reported as no
\* commits.
GetCommitsSinceTag(tag) ==
    IF ~HasCommits \/ (tag # << >> /\ GetCommitSHAForTag(tag).err) THEN << >>
    ELSE [k \in 1..GetCommitCountSinceTag(tag) |->
             SubSeq(FullSHA(Len(log) + 1 - k), 1, 7) \o <<" ">> \o log[Len(log) + 1 - k].subject]

\* Repository.DetectVersionIncrement: the loop of analyzeCommitMessages and
\* the tests of detectIncrementFromMessage written out in one function, on
\* the lines of GetCommitsSinceTag.
DetectVersionIncrement(tag) == AnalyzeFrom(GetCommitsSinceTag(tag), 1, "patch")

\* One direct call.
InitCall ==
    /\ log = << >>
    /\ tagAt = [i \in 1..Len(TagNames) |-> 0]
    /\ pc = "idle"
    /\ opts \in VersioningCalls \cup LookupCalls \cup MessageCalls
               \cup SelectionCalls \cup SemverCalls
    /\ run = NoRun

NextCall == Versioning \/ Lookup \/ Analyze \/ Select \/ RoundTrip
            \/ CompareVersions
            \/ \E part \in {"major", "minor", "patch"} : Increment(part)

SpecCalls == InitCall /\ [][NextCall]_vars

\* git commit -m <subject>, for subjects that are not merges.
CommitSubject(subject) ==
    /\ pc = "idle"
    /\ Len(log) < MaxCommits
    /\ log' = Append(log, [mergedBranch |-> << >>, subject |-> subject])
    /\ UNCHANGED << tagAt, pc, opts, run >>

\* repo.DetectVersionIncrement(tag)
Detect(tag) ==
    /\ pc = "idle"
    /\ opts' = [fn |-> "DetectVersionIncrement", tag |-> tag]
    /\ run' = [increment |-> DetectVersionIncrement(tag)]
    /\ pc' = "detected"
    /\ UNCHANGED << log, tagAt >>

\* A repository whose commits carry their subjects, the command lines that
\* leave the increment to the tool, and the detection of the increment from
\* the commits since a tag or since the beginning.
NextSubjects ==
    \/ \E subject \in { <<"f","i","x",":"," ","b","u","g">>, <<"f","e","a","t","!",":"," ","a","p","i">>, <<"F","e","a","t","(","a","p","i",")",":"," ","v","2">>, <<"u","p"," ","+","s","e","m","v","e","r",":"," "," ","m","i","n","o","r">> } :
          CommitSubject(subject)
    \/ \E i \in 1..Len(TagNames), commit \in 1..MaxCommits : CreateTag(i, commit)
    \/ \E o \in [ConfigFile : {"bare.yml", "custom.yml"}, TargetBranch : { << >>, <<"d","e","v","e","l","o","p">> },
                 Workflow : {"gitflow"}, ForceIncrement : {"", "patch"}, NextVersion : { << >> }] :
          Invoke(o)
    \/ \E tag \in { << >>, <<"v","0",".","1",".","0">>, <<"v","5",".","0",".","0">> } : Detect(tag)
    \/ Exit

SpecSubjects == Init /\ [][NextSubjects]_vars

(***************************************************************************)
(* StrategyManager.GetBaseVersions step by step: run holds the loop's       *)
(* position, the base versions collected and the strategies invoked so far. *)
(***************************************************************************)
\* sm.GetBaseVersions(ctx) is called.
Resolve(ctx) ==
    /\ pc = "idle"
    /\ opts' = [fn |-> "GetBaseVersions", ctx |-> ctx]
    /\ run' = [i |-> 1, allBaseVersions |-> << >>, invoked |-> << >>, err |-> FALSE,
               failed |-> ""]
    /\ pc' = "loop"
    /\ UNCHANGED << log, tagAt >>

\* Faulty variant of StrategyIteration: a strategy that fails is passed over
\* and the loop goes on.
StrategyIterationSkipsFailure ==
    /\ pc = "loop"
    /\ run.i <= Len(strategyOrder)
    /\ IF strategyOrder[run.i] \notin opts.ctx.Strategies
       THEN run' = [run EXCEPT !.i = @ + 1]
       ELSE run' = [run EXCEPT
                       !.i = @ + 1,
                       !.invoked = Append(@, strategyOrder[run.i]),
                       !.allBaseVersions =
                           @ \o StrategyGetBaseVersions(strategyOrder[run.i],
                                                        opts.ctx).baseVersions]
    /\ pc' = pc
    /\ UNCHANGED << log, tagAt, opts >>

\* One pass of "for _, strategyType := range strategyOrder".
StrategyIteration ==
    /\ pc = "loop"
    /\ run.i <= Len(strategyOrder)
    /\ IF strategyOrder[run.i] \notin opts.ctx.Strategies
       THEN /\ run' = [run EXCEPT !.i = @ + 1]
            /\ pc' = pc
       ELSE IF StrategyGetBaseVersions(strategyOrder[run.i], opts.ctx).err
       THEN /\ run' = [run EXCEPT !.invoked = Append(@, strategyOrder[run.i]),
                                  !.allBaseVersions = << >>, !.err = TRUE,
                                  !.failed = strategyOrder[run.i]]
            /\ pc' = "done"
       ELSE /\ run' = [run EXCEPT
                          !.i = @ + 1,
                          !.invoked = Append(@, strategyOrder[run.i]),
                          !.allBaseVersions =
                              @ \o StrategyGetBaseVersions(strategyOrder[run.i],
                                                           opts.ctx).baseVersions]
            /\ pc' = pc
    /\ UNCHANGED << log, tagAt, opts >>

\* Faulty variant of FallbackIfEmpty: an empty pool is returned as it is.
FallbackIfEmptyReturnsEmpty ==
    /\ pc = "loop"
    /\ run.i > Len(strategyOrder)
    /\ pc' = "done"
    /\ UNCHANGED << log, tagAt, opts, run >>

\* "If no base versions found, use fallback", and the return.
FallbackIfEmpty ==
    /\ pc = "loop"
    /\ run.i > Len(strategyOrder)
    /\ run' = IF Len(run.allBaseVersions) = 0
              THEN [run EXCEPT !.invoked = Append(@, "Fallback"),
                               !.allBaseVersions = FallbackStrategy(opts.ctx).baseVersions]
              ELSE run
    /\ pc' = "done"
    /\ UNCHANGED << log, tagAt, opts >>

\* The repository grows between calls of the strategy manager; the calls are
\* made for a main, a release-tracking and a hotfix branch, with the masks
\* CalculateVersion builds and other ones, and with a good, a bad and no
\* next version.
NextManager ==
    \/ \E mergedBranch \in MergedBranches : Commit(mergedBranch)
    \/ \E i \in 1..Len(TagNames), commit \in 1..MaxCommits : CreateTag(i, commit)
    \/ \E branch \in { <<"m","a","i","n">>, <<"d","e","v","e","l","o","p">>, <<"h","o","t","f","i","x","/","1",".","2",".","0">> },
          nextVersion \in { << >>, <<"2",".","0",".","0">>, <<"n","e","x","t">> },
          strategies \in { {}, {strategyOrder[k] : k \in 1..Len(strategyOrder)},
                           StrategiesMask(<< >>), StrategiesMask(<<"n","e","x","t">>), {"TaggedCommit"},
                           {"VersionInBranchName", "TrackReleaseBranches", "Mainline"} } :
          \E branchConfig \in GetBranchConfiguration(LoadConfig("bare.yml"), branch) :
              Resolve(VersionContext(LoadConfig("bare.yml"), branch, GetSHA, branchConfig,
                                     strategies, nextVersion))
    \/ StrategyIteration
    \/ FallbackIfEmpty
    \/ Exit

SpecManager == Init /\ [][NextManager]_vars


(***************************************************************************)
(* The calls CalculateVersion and its strategies make on the Repository    *)
(* collaborator, in the order they are made.                               *)
(***************************************************************************)
\* The calls strategy.GetBaseVersions(ctx) makes on ctx.Repository.
StrategyQueries(strategyType, ctx) ==
    CASE strategyType = "TaggedCommit" ->
             << [op |-> "GetTagsOnCurrentBranch", args |-> << >>] >>
             \o [k \in 1..Len(SelectSeq(GetTagsOnCurrentBranch, LAMBDA tag : Parse(tag).ok)) |->
                    [op |-> "GetCommitSHAForTag",
                     args |-> << SelectSeq(GetTagsOnCurrentBranch,
                                           LAMBDA tag : Parse(tag).ok)[k] >>]]
      [] strategyType = "TrackReleaseBranches" ->
             IF ~ctx.BranchConfig.TracksReleaseBranches THEN << >>
             ELSE << [op |-> "GetBranches", args |-> << >>] >>
                  \o [k \in 1..Len(SelectSeq(GetBranches.branches,
                                             LAMBDA branch : /\ IsReleaseBranchName(branch)
                                                             /\ FindVersion(branch).found)) |->
                         [op |-> "GetMergeBase",
                          args |-> << SelectSeq(GetBranches.branches,
                                                LAMBDA branch :
                                                    /\ IsReleaseBranchName(branch)
                                                    /\ FindVersion(branch).found)[k],
                                      ctx.CurrentBranch >>]]
      [] strategyType = "MergeMessage" ->
             IF ~ctx.BranchConfig.TrackMergeMessage THEN << >>
             ELSE << [op |-> "GetCommitHistory", args |-> << FormatInt(50) >>] >>
      [] strategyType = "Mainline" ->
             IF ~ctx.BranchConfig.IsMainBranch THEN << >>
             ELSE << [op |-> "GetLatestTag", args |-> << >>] >>
                  \o (IF Parse(GetLatestTag).ok
                      THEN << [op |-> "GetCommitSHAForTag", args |-> << GetLatestTag >>] >>
                      ELSE << >>)
      [] OTHER -> << >>

\* The calls of the loop of StrategyManager.GetBaseVersions from
\* strategyOrder[i] on, and then the calls rest of the caller: a strategy that
\* fails makes the last calls of all, since the caller returns the error.
RECURSIVE StrategyLoopQueries(_, _, _)
StrategyLoopQueries(ctx, i, rest) ==
    IF i > Len(strategyOrder) THEN rest
    ELSE IF strategyOrder[i] \notin ctx.Strategies THEN StrategyLoopQueries(ctx, i + 1, rest)
    ELSE StrategyQueries(strategyOrder[i], ctx)
         \o (IF StrategyGetBaseVersions(strategyOrder[i], ctx).err THEN << >>
             ELSE StrategyLoopQueries(ctx, i + 1, rest))

\* The calls of one Calculator.CalculateVersion(branch, ...), which resolves
\* an empty branch to resolved and then finds the policy branchConfig.
CalculateVersionQueries(c, branch, resolved, nextVersion, branchConfig) ==
    (IF branch = << >> THEN << [op |-> "GetCurrentBranch", args |-> << >>] >> ELSE << >>)
    \o << [op |-> "GetSHA", args |-> << >>] >>
    \o StrategyLoopQueries(VersionContext(c, resolved, GetSHA, branchConfig,
                                          StrategiesMask(nextVersion), nextVersion), 1,
                           << [op |-> "GetCommitCountSinceTag", args |-> << << >> >>],
                              [op |-> "GetShortSHA", args |-> << >>] >>)

(***************************************************************************)
(* pkg/gitversion: the JSON output.                                        *)
(***************************************************************************)
\* Formatter.formatJSON: the fields of JSONOutput that come from the version,
\* the branch and the repository (the assembly versions and the commit date
\* are left out).
formatJSON(version, branch) ==
    [Major |-> version.Major, Minor |-> version.Minor, Patch |-> version.Patch,
     PreReleaseTag |-> version.PreRelease,
     PreReleaseTagWithDash |-> IF version.PreRelease # << >> THEN <<"-">> \o version.PreRelease
                               ELSE << >>,
     BuildMetaData |-> version.Build,
     BuildMetaDataPadded |-> IF version.Build # << >> THEN <<"+">> \o version.Build ELSE << >>,
     FullBuildMetaData |-> version.Build,
     SemVer |-> String(version),
     BranchName |-> branch,
     EscapedBranchName |-> SanitizeBranchName(branch),
     Sha |-> GetSHA,
     ShortSha |-> GetShortSHA,
     VersionSourceSha |-> GetSHA,
     CommitsSinceVersionSource |-> GetCommitCountSinceTag(GetLatestTag)]
\* The text after the last '-' of a text, empty when there is no '-'.
AfterDash(segment) ==
    IF LastIndex(segment, "-") = 0 THEN << >>
    ELSE SubSeq(segment, LastIndex(segment, "-") + 1, Len(segment))

\* "beta" for an empty tag.
OrBeta(tag) == IF tag = << >> THEN <<"b","e","t","a">> ELSE tag

\* C11 as stated: for a Release branch with count > 0 the pre-release is
\* "<tag>.<count>", tag being the text after the last '-' of the trailing path
\* segment as it stands, "beta" when there is none.
C11_ReleaseTagVerbatim ==
    (pc = "done" /\ opts.fn = "applyBranchSpecificVersioning" /\ run.branchType = "release" /\ opts.commitCount > 0)
    => run.version.PreRelease =
          OrBeta(AfterDash(LastSegment(opts.branch))) \o <<".">> \o FormatInt(opts.commitCount)

\* C11, amended: for a Release branch with count > 0 the pre-release is
\* "<tag>.<count>", tag being the text after the last '-' of the trailing path
\* segment with every character that is no letter or digit replaced by '-',
\* "beta" when there is no such text; release/0.0.2-alpha with 3 commits and
\* SHA abc1234 gives alpha.3 and build 3+abc1234, release/1.2.0 with 2
\* commits gives beta.2.
C11_ReleaseTagSanitized ==
    (pc = "done" /\ opts.fn = "applyBranchSpecificVersioning" /\ run.branchType = "release" /\ opts.commitCount > 0)
    => /\ run.version.PreRelease =
             OrBeta(Dashed(AfterDash(LastSegment(opts.branch))))
                \o <<".">> \o FormatInt(opts.commitCount)
       /\ (opts.branch = <<"r","e","l","e","a","s","e","/","0",".","0",".","2","-","a","l","p","h","a">> /\ opts.commitCount = 3 /\ opts.sha = <<"a","b","c","1","2","3","4">>)
             => (run.version.PreRelease = <<"a","l","p","h","a",".","3">> /\ run.version.Build = <<"3","+","a","b","c","1","2","3","4">>)
       /\ (opts.branch = <<"r","e","l","e","a","s","e","/","1",".","2",".","0">> /\ opts.commitCount = 2)
             => run.version.PreRelease = <<"b","e","t","a",".","2">>

\* C11 happens: release/0.0.2-alpha, 3 commits, SHA abc1234.
C11_Witness ==
    /\ pc = "done"
    /\ opts.fn = "applyBranchSpecificVersioning"
    /\ run.branchType = "release"
    /\ opts.branch = <<"r","e","l","e","a","s","e","/","0",".","0",".","2","-","a","l","p","h","a">>
    /\ opts.commitCount = 3
    /\ opts.sha = <<"a","b","c","1","2","3","4">>
    /\ run.version.PreRelease = <<"a","l","p","h","a",".","3">>
    /\ run.version.Build = <<"3","+","a","b","c","1","2","3","4">>

\* C12: when the selected base version comes from a tag, the commit count put
\* into the pre-release and the build metadata is the number of commits from
\* the tagged commit to HEAD, 0 when HEAD is the tagged commit.
C12_CountSinceAnchor ==
    \A i \in 1..Len(TagNames) :
        (Returned /\ BaseIsTag(TagNames[i]) /\ tagAt[i] > 0)
        => /\ run.commitCount = Len(log) - tagAt[i]
           /\ run.version.Build = FormatInt(Len(log) - tagAt[i]) \o <<"+">> \o GetShortSHA

\* A lookup call has ended.
LookedUp == pc = "done" /\ opts.fn = "GetBranchConfiguration"

\* No policy of the branches section matches the name: not by key, not by
\* regex, not by prefix.
NoPolicyMatches(branches, branchName) ==
    /\ branchName \notin DOMAIN branches
    /\ RegexMatches([Branches |-> branches], branchName) = {}
    /\ PrefixMatches([Branches |-> branches], branchName) = {}

\* C13: for every branch name and every branches section,
\* GetBranchConfiguration returns a policy, never nil and never an error, and
\* it returns the built-in default (Increment Patch, label {BranchName}) when
\* no policy matches.
C13_ClassificationIsTotal ==
    LookedUp
    => /\ run.policy # NilBranchConfiguration
       /\ run.policy # PanicNilPointer
       /\ NoPolicyMatches(opts.branches, opts.branchName)
             => run.policy = DefaultBranchConfiguration

\* C14: of the lookups that return, the policy whose key is the branch name
\* is returned whatever else matches; otherwise a policy whose regex matches,
\* even when another policy's "<name>/" is a prefix; otherwise a policy whose
\* "<name>/" is a prefix; otherwise the default.
C14_StrictPrecedence ==
    (LookedUp /\ run.policy # PanicNilPointer)
    => IF opts.branchName \in DOMAIN opts.branches
       THEN run.policy = opts.branches[opts.branchName]
       ELSE IF RegexMatches([Branches |-> opts.branches], opts.branchName) # {}
       THEN \E n \in DOMAIN opts.branches :
               /\ run.policy = opts.branches[n]
               /\ opts.branches[n] # NilBranchConfiguration
               /\ opts.branches[n].Regex # << >>
               /\ matchesRegex(opts.branchName, opts.branches[n].Regex)
       ELSE IF PrefixMatches([Branches |-> opts.branches], opts.branchName) # {}
       THEN \E n \in DOMAIN opts.branches :
               /\ run.policy = opts.branches[n]
               /\ HasPrefix(opts.branchName, n \o <<"/">>)
       ELSE run.policy = DefaultBranchConfiguration

\* C14 happens: release/1.0 has "release/" as prefix and is accepted by the
\* regex of "rel"; the policy "rel" is returned.
C14_Witness ==
    /\ LookedUp
    /\ opts.branches = LayeredBranches
    /\ opts.branchName = <<"r","e","l","e","a","s","e","/","1",".","0">>
    /\ PrefixMatches([Branches |-> opts.branches], opts.branchName) = { <<"r","e","l","e","a","s","e">> }
    /\ RegexMatches([Branches |-> opts.branches], opts.branchName) = { <<"r","e","l">> }
    /\ run.policy.Label = "rel"

\* An analysis call has returned.
Analyzed == pc = "done" /\ opts.fn = "analyzeCommitMessages"

\* The orders a sequence of messages can come in.
Orders(messages) ==
    {[k \in 1..Len(messages) |-> messages[p[k]]] :
        p \in {f \in [1..Len(messages) -> 1..Len(messages)] :
                  \A a, b \in 1..Len(messages) : f[a] = f[b] => a = b}}

\* The strongest increment a message of the sequence asks for.
Strongest(messages) ==
    IF \E k \in 1..Len(messages) : detectIncrementFromMessage(messages[k]) = "major" THEN "major"
    ELSE IF \E k \in 1..Len(messages) : detectIncrementFromMessage(messages[k]) = "minor"
    THEN "minor"
    ELSE "patch"

\* C15: the analysis of a sequence of commit messages is Major if any message
\* carries a major trigger, else Minor if any carries a minor trigger, else
\* Patch, and it is the same for every order of the messages; fix: with
\* feat!: gives Major in either order.
C15_SeverityNotPosition ==
    Analyzed
    => /\ run.increment = Strongest(opts.messages)
       /\ \A other \in Orders(opts.messages) :
             analyzeCommitMessages(other) = run.increment
       /\ opts.messages \in { << <<"f","i","x",":"," ","b","u","g">>, <<"f","e","a","t","!",":"," ","a","p","i">> >>, << <<"f","e","a","t","!",":"," ","a","p","i">>, <<"f","i","x",":"," ","b","u","g">> >> }
             => run.increment = "major"
       /\ opts.messages \in { << <<"f","i","x",":"," ","b","u","g">>, <<"F","e","a","t","(","a","p","i",")",":"," ","v","2">> >>, << <<"F","e","a","t","(","a","p","i",")",":"," ","v","2">>, <<"f","i","x",":"," ","b","u","g">> >>,
                              << <<"u","p"," ","+","s","e","m","v","e","r",":"," "," ","m","i","n","o","r">>, <<"r","e","f","e","a","t","!",":"," ","x">> >> }
             => run.increment = "minor"
       /\ opts.messages \in { << <<"f","i","x",":"," ","b","u","g">> >>, << >>, << <<"r","e","f","e","a","t","!",":"," ","x">>, <<"f","i","x",":"," ","b","u","g">> >>,
                              << <<"f","e","a","t","(","a">> \o << "\n" >> \o <<"b",")","!",":"," ","x">> >> }
             => run.increment = "patch"

\* C15 happens: a minor trigger comes before a major one, and the analysis
\* gives Major as it does for the opposite order.
C15_Witness ==
    /\ Analyzed
    /\ opts.messages = << <<"F","e","a","t","(","a","p","i",")",":"," ","v","2">>, <<"f","i","x",":"," ","b","u","g">>, <<"B","R","E","A","K","I","N","G">> \o << "\n" >> \o <<"C","H","A","N","G","E",":"," ","x">> >>
    /\ run.increment = "major"
    /\ analyzeCommitMessages(<< opts.messages[3], opts.messages[2], opts.messages[1] >>) = "major"

\* A commit after commit number from carries a trigger of the given strength.
TriggerSince(from, strength) ==
    \E k \in (from + 1)..Len(log) : detectIncrementFromMessage(log[k].subject) = strength

\* C16: with no forced increment, when a commit since the base carries a major
\* trigger the returned version has the base's major bumped, and when the
\* strongest trigger since the base is a minor one, the base's minor.
C16_IncrementFromCommitMessages ==
    \A i \in 1..Len(TagNames) :
        (Returned /\ opts.ForceIncrement = "" /\ tagAt[i] > 0 /\ BaseIsTag(TagNames[i]))
        => /\ TriggerSince(tagAt[i], "major")
                => run.version.Major = run.baseVersion.SemanticVersion.Major + 1
           /\ (TriggerSince(tagAt[i], "minor") /\ ~TriggerSince(tagAt[i], "major"))
                => /\ run.version.Major = run.baseVersion.SemanticVersion.Major
                   /\ run.version.Minor = run.baseVersion.SemanticVersion.Minor + 1

\* A call of the strategy manager has ended.
Resolved == pc = "done" /\ opts # NoOptions /\ opts.fn = "GetBaseVersions"

\* The flagged strategies in the fixed order.
Flagged(strategies) ==
    SelectSeq(<< "ConfiguredNextVersion", "VersionInBranchName", "TaggedCommit",
                 "TrackReleaseBranches", "MergeMessage", "Mainline", "Fallback" >>,
              LAMBDA s : s \in strategies)

\* The results of the named strategies, one after the other.
RECURSIVE Concatenated(_, _)
Concatenated(names, ctx) ==
    IF names = << >> THEN << >>
    ELSE StrategyGetBaseVersions(Head(names), ctx).baseVersions \o Concatenated(Tail(names), ctx)

\* C17: a call of GetBaseVersions that succeeds has invoked the strategies
\* flagged in ctx.Strategies and no other, each once, in the order
\* ConfiguredNextVersion, VersionInBranchName, TaggedCommit,
\* TrackReleaseBranches, MergeMessage, Mainline, Fallback; the pool is the
\* concatenation of their results in that order, or the Fallback candidate
\* 0.0.0 when that is empty; the pool is never empty.
C17_FlaggedStrategiesInOrder ==
    (Resolved /\ ~run.err)
    => /\ Len(run.allBaseVersions) > 0
       /\ IF Concatenated(Flagged(opts.ctx.Strategies), opts.ctx) # << >>
          THEN /\ run.invoked = Flagged(opts.ctx.Strategies)
               /\ run.allBaseVersions = Concatenated(Flagged(opts.ctx.Strategies), opts.ctx)
          ELSE /\ run.invoked = Flagged(opts.ctx.Strategies) \o << "Fallback" >>
               /\ Len(run.allBaseVersions) = 1
               /\ Triple(run.allBaseVersions[1].SemanticVersion) = << 0, 0, 0 >>
               /\ run.allBaseVersions[1].Source.text = "Fallback strategy"
       /\ run.allBaseVersions = GetBaseVersions(opts.ctx).baseVersions

\* C17 happens: with every flag set on main, after a merge of release/3.0.0
\* into a tagged history, the seven strategies ran in order and three of them
\* gave candidates.
C17_Witness ==
    /\ Resolved
    /\ ~run.err
    /\ Len(run.invoked) = 7
    /\ opts.ctx.NextVersion = <<"2",".","0",".","0">>
    /\ Len(run.allBaseVersions) >= 4
    /\ run.allBaseVersions[1].Source.text = "Configured next version"
    /\ run.allBaseVersions[Len(run.allBaseVersions)].Source.text = "Fallback strategy"

\* C18: when a flagged strategy returns an error, GetBaseVersions returns an
\* error that names that strategy, no strategy later in the order has been
\* invoked, the candidates collected before are discarded, and CalculateVersion
\* on that outcome returns an error and no version.
C18_FailFast ==
    /\ (pc \in {"loop", "done"} /\ opts # NoOptions /\ opts.fn = "GetBaseVersions")
       => \A k \in 1..Len(run.invoked) :
             StrategyGetBaseVersions(run.invoked[k], opts.ctx).err
             => /\ k = Len(run.invoked)
                /\ pc = "done"
                /\ run.err
                /\ run.failed = run.invoked[k]
                /\ run.allBaseVersions = << >>
    /\ (Resolved /\ run.err)
       => /\ run.invoked # << >>
          /\ StrategyGetBaseVersions(run.failed, opts.ctx).err
          /\ GetBaseVersions(opts.ctx).err
          /\ FromBaseVersions(opts.ctx.CurrentBranch, "gitflow", "", opts.ctx.NextVersion,
                              opts.ctx.BranchConfig, GetBaseVersions(opts.ctx))
               = FailedRun(opts.ctx.CurrentBranch, "gitflow", "", opts.ctx.NextVersion,
                           opts.ctx.BranchConfig)

\* C18 happens: the next version does not parse, tags exist, and the call ends
\* with ConfiguredNextVersion's error before TaggedCommit is invoked.
C18_Witness ==
    /\ Resolved
    /\ run.err
    /\ run.failed = "ConfiguredNextVersion"
    /\ opts.ctx.NextVersion = <<"n","e","x","t">>
    /\ "TaggedCommit" \in opts.ctx.Strategies
    /\ run.invoked = << "ConfiguredNextVersion" >>
    /\ GetTagsOnCurrentBranch # << >>

\* C19: inside a strategy only parse failures are skipped: a repository query
\* that fails makes the strategy, and so the resolution, return an error.
\* git tag --merged HEAD fails in a repository without commits.
C19_QueryFailureAborts ==
    (Resolved /\ ~HasCommits /\ "TaggedCommit" \in {run.invoked[k] : k \in 1..Len(run.invoked)})
    => run.err

\* A selection call on a pool with candidates has returned.
Selected == pc = "done" /\ opts.fn = "FindBestBaseVersion" /\ Len(opts.baseVersions) > 0

\* Major, minor, patch and pre-release label of a version.
Labelled(v) == << v.Major, v.Minor, v.Patch, v.PreRelease >>

\* C20: the selection chooses one candidate of the pool, its version is
\* maximal under Compare, the chosen version (major, minor, patch,
\* pre-release) is the same for every order of the pool, a candidate without
\* pre-release label wins over those with the same major.minor.patch and a
\* label, and FindBestBaseVersion chooses the same version as the loop in
\* CalculateVersion.
C20_SelectionIsMaximum ==
    Selected
    => /\ \E k \in 1..Len(opts.baseVersions) : opts.baseVersions[k] = run.baseVersion
       /\ \A k \in 1..Len(opts.baseVersions) :
             /\ Compare(run.baseVersion.SemanticVersion,
                        opts.baseVersions[k].SemanticVersion) >= 0
             /\ (/\ Triple(opts.baseVersions[k].SemanticVersion)
                        = Triple(run.baseVersion.SemanticVersion)
                 /\ opts.baseVersions[k].SemanticVersion.PreRelease = << >>)
                => run.baseVersion.SemanticVersion.PreRelease = << >>
       /\ \A other \in Orders(opts.baseVersions) :
             /\ Labelled(HighestBaseVersion(other).SemanticVersion)
                    = Labelled(run.baseVersion.SemanticVersion)
             /\ Labelled(FindBestBaseVersion(other).SemanticVersion)
                    = Labelled(run.baseVersion.SemanticVersion)
       /\ Labelled(run.best.SemanticVersion) = Labelled(run.baseVersion.SemanticVersion)

\* C20 happens: 1.2.0-rc comes before 1.2.0 and after 1.2.0-beta, and 1.2.0 is
\* chosen by both selections.
C20_Witness ==
    /\ Selected
    /\ Len(opts.baseVersions) = 3
    /\ opts.baseVersions[1].SemanticVersion = Version(1, 2, 0, <<"b","e","t","a">>, << >>)
    /\ opts.baseVersions[2].SemanticVersion = Version(1, 2, 0, <<"r","c">>, << >>)
    /\ opts.baseVersions[3].SemanticVersion = Version(1, 2, 0, << >>, << >>)
    /\ run.baseVersion = opts.baseVersions[3]
    /\ run.best = opts.baseVersions[3]

\* C21: for every version whose pre-release uses alphanumerics, '.' and '-'
\* and whose build uses alphanumerics, '.', '+' and '-', Parse(v.String())
\* succeeds and returns the same major, minor, patch, pre-release and build.
C21_ParseStringRoundTrip ==
    (pc = "done" /\ opts.fn = "String"
        /\ (\A k \in 1..Len(opts.v.PreRelease) : opts.v.PreRelease[k] \in PreReleaseChars)
        /\ (\A k \in 1..Len(opts.v.Build) : opts.v.Build[k] \in BuildChars))
    => /\ run.parsed.ok
       /\ run.parsed.v = opts.v

\* C21 happens: 1.10.3-rc.1+3+abc1234 is written and read back.
C21_Witness ==
    /\ pc = "done"
    /\ opts.fn = "String"
    /\ opts.v = Version(1, 10, 3, <<"r","c",".","1">>, <<"3","+","a","b","c","1","2","3","4">>)
    /\ run.text = <<"1",".","1","0",".","3","-","r","c",".","1","+","3","+","a","b","c","1","2","3","4">>
    /\ run.parsed.ok
    /\ run.parsed.v = opts.v

\* The third versions transitivity is tried with.
ThirdVersions ==
    [Major : {0, 1}, Minor : {2, 10}, Patch : {0, 3},
     PreRelease : { << >>, <<"r","c">>, <<"r","c",".","1">>, <<"a","l","p","h","a","-","2">> }, Build : { << >>, <<"7">> }]

\* C22: Compare is a total order on (major, minor, patch, pre-release) that
\* ignores the build: Compare(a, b) = -Compare(b, a); Compare is transitive;
\* Compare(a, b) = 0 exactly when the four fields are equal; and with equal
\* major.minor.patch a version without pre-release is greater than one with.
C22_CompareIsTotalOrder ==
    (pc = "done" /\ opts.fn = "Compare")
    => /\ run.result \in {-1, 0, 1}
       /\ run.result = -run.reverse
       /\ (run.result = 0) = (Labelled(opts.v) = Labelled(opts.other))
       /\ (Triple(opts.v) = Triple(opts.other)
            /\ opts.v.PreRelease = << >> /\ opts.other.PreRelease # << >>)
          => run.result = 1
       /\ \A c \in ThirdVersions :
             /\ (run.result >= 0 /\ Compare(opts.other, c) >= 0) => Compare(opts.v, c) >= 0
             /\ (run.result > 0 /\ Compare(opts.other, c) >= 0) => Compare(opts.v, c) > 0
             /\ (run.result >= 0 /\ Compare(opts.other, c) > 0) => Compare(opts.v, c) > 0

\* C22 happens: 1.2.0+3+abc1234 against 1.2.0-rc.1 is greater, and 1.10.0
\* against 1.2.3 is greater too.
C22_Witness ==
    /\ pc = "done"
    /\ opts.fn = "Compare"
    /\ opts.v = Version(1, 2, 0, << >>, <<"3","+","a","b","c","1","2","3","4">>)
    /\ opts.other = Version(1, 2, 0, <<"r","c",".","1">>, << >>)
    /\ run.result = 1
    /\ run.reverse = -1
    /\ Compare(Version(1, 10, 0, << >>, << >>), Version(1, 2, 3, << >>, << >>)) = 1

\* C23: IncrementMajor adds 1 to major and sets minor and patch to 0;
\* IncrementMinor adds 1 to minor, sets patch to 0 and keeps major;
\* IncrementPatch adds 1 to patch and keeps major and minor; none of them
\* changes pre-release or build; and an increment of a copy leaves the
\* original version as it was.
C23_IncrementTruncates ==
    (pc = "done" /\ opts.fn = "Increment")
    => /\ run.heap[1] = opts.v
       /\ run.heap[2].PreRelease = opts.v.PreRelease
       /\ run.heap[2].Build = opts.v.Build
       /\ run.part = "major" => Triple(run.heap[2]) = << opts.v.Major + 1, 0, 0 >>
       /\ run.part = "minor" => Triple(run.heap[2]) = << opts.v.Major, opts.v.Minor + 1, 0 >>
       /\ run.part = "patch"
             => Triple(run.heap[2]) = << opts.v.Major, opts.v.Minor, opts.v.Patch + 1 >>

\* C23 happens: the minor of a copy of 1.2.3-rc.1+3+abc1234 is incremented.
C23_Witness ==
    /\ pc = "done"
    /\ opts.fn = "Increment"
    /\ run.part = "minor"
    /\ opts.v = Version(1, 2, 3, <<"r","c",".","1">>, <<"3","+","a","b","c","1","2","3","4">>)
    /\ run.heap = << opts.v, Version(1, 3, 0, <<"r","c",".","1">>, <<"3","+","a","b","c","1","2","3","4">>) >>

\* ^(h1|h2|...)[\/-] followed by at least rest more characters: what the
\* regular expressions of the default policies for prefixed branches accept.
HeadSeparatorRest(branchName, heads, rest) ==
    \E head \in heads :
        /\ HasPrefix(branchName, head)
        /\ Len(branchName) > Len(head) + rest
        /\ branchName[Len(head) + 1] \in {"/", "-"}

\* The match of the regular expression of a default policy, by its key.
DefaultRegexAccepts(key, branchName) ==
    CASE key = <<"m","a","i","n">> -> branchName \in { <<"m","a","s","t","e","r">>, <<"m","a","i","n">> }
      [] key = <<"d","e","v","e","l","o","p">> -> branchName \in { <<"d","e","v">>, <<"d","e","v","e","l","o","p">>, <<"d","e","v","m","e","n","t">>, <<"d","e","v","e","l","o","p","m","e","n","t">> }
      [] key = <<"r","e","l","e","a","s","e">> -> HeadSeparatorRest(branchName, { <<"r","e","l","e","a","s","e">>, <<"r","e","l","e","a","s","e","s">> }, 1)
      [] key = <<"f","e","a","t","u","r","e">> -> HeadSeparatorRest(branchName, { <<"f","e","a","t","u","r","e">>, <<"f","e","a","t","u","r","e","s">> }, 1)
      [] key = <<"p","u","l","l","-","r","e","q","u","e","s","t">> ->
             HeadSeparatorRest(branchName, { <<"p","u","l","l","-","r","e","q","u","e","s","t","s">>, <<"p","u","l","l">>, <<"p","r">> }, 0)
      [] key = <<"h","o","t","f","i","x">> -> HeadSeparatorRest(branchName, { <<"h","o","t","f","i","x">>, <<"h","o","t","f","i","x","e","s">> }, 1)
      [] key = <<"s","u","p","p","o","r","t">> -> HeadSeparatorRest(branchName, { <<"s","u","p","p","o","r","t">> }, 1)

\* C24: in the regex step a policy matches exactly when its Regex, as a
\* regular expression, matches the branch name: matchesRegex(branch, regex)
\* equals the regular-expression match, here for the default policies.
C24_MatchesRegexIsRegexMatch ==
    (LookedUp /\ opts.branches = getDefaultBranchConfigurations)
    => \A key \in DOMAIN opts.branches :
          matchesRegex(opts.branchName, opts.branches[key].Regex)
             = DefaultRegexAccepts(key, opts.branchName)

\* The detection has returned for the commits after commit number from.
DetectedSince(from) ==
    /\ pc = "detected"
    /\ \/ (opts.tag = << >> /\ from = 0)
       \/ (opts.tag # << >> /\ from > 0 /\ tagAt[TagIndex(opts.tag)] = from)

\* A commit after commit number from has a subject that begins with feat and
\* an optional scope, followed by the tail.
FeatSince(from, tail) ==
    \E k \in (from + 1)..Len(log) : MatchFeat(ToLower(log[k].subject), tail)

\* C25: DetectVersionIncrement(tag) on the lines of GetCommitsSinceTag(tag)
\* gives Major when a commit since the tag has a subject beginning with
\* feat!: or feat(scope)!:, and Minor when one begins with feat: or
\* feat(scope): and no commit carries a major trigger.
C25_DetectsConventionalCommits ==
    \A from \in 0..Len(log) :
        DetectedSince(from)
        => /\ FeatSince(from, <<"!",":">>) => run.increment = "major"
           /\ (FeatSince(from, <<":">>) /\ ~TriggerSince(from, "major"))
                => run.increment = "minor"


\* No call occurs twice in the sequence of calls.
NoQueryTwice(queries) ==
    \A i, j \in 1..Len(queries) : queries[i] = queries[j] => i = j

\* The methods of Repository, each of which runs one git command that only
\* reads: rev-parse, tag --merged, rev-list, log, describe, branch -r,
\* merge-base.
ReadOnlyQueries ==
    { "GetCurrentBranch", "GetSHA", "GetShortSHA", "GetTagsOnCurrentBranch",
      "GetCommitSHAForTag", "GetLatestTag", "GetBranches", "GetMergeBase",
      "GetCommitHistory", "GetCommitCountSinceTag" }

\* The calls of the CalculateVersion call that produced run, given the branch
\* argument it received.
QueriesOfRun(branch) ==
    CalculateVersionQueries(LoadConfig(opts.ConfigFile), branch, run.branch,
                            run.nextVersion, run.branchConfig)

\* The branch arguments that lead CalculateVersion to the recorded run: the
\* resolved name, and the empty name when that is the checked-out branch.
BranchArguments ==
    IF opts.TargetBranch = << >> THEN { << >>, run.branch } ELSE { run.branch }

\* C26: within one call of CalculateVersion, the strategies included, no
\* repository query (method and arguments) is issued twice, the repository
\* is left as it was, and every query is one of the reading methods.
C26_EachQueryAtMostOnce ==
    pc = "done"
    => \A branch \in BranchArguments :
          \A queries \in { QueriesOfRun(branch) } :
             /\ NoQueryTwice(queries)
             /\ \A i \in 1..Len(queries) : queries[i].op \in ReadOnlyQueries

\* A successful run on a repository with a version tag: the tags are listed
\* once, the tag is resolved once, the history is read once.
C26_Witness ==
    /\ pc = "done"
    /\ ~run.err
    /\ opts.TargetBranch = << >>
    /\ tagAt[3] > 0
    /\ Len(QueriesOfRun(<< >>)) = 7
    /\ NoQueryTwice(QueriesOfRun(<< >>))

\* C27: in the JSON output of an invocation, CommitsSinceVersionSource is
\* the commit count that begins BuildMetaData ("<count>+<sha>"), in every
\* repository state, a tag reachable from HEAD included.
C27_CommitsSinceIsBuildCount ==
    Returned
    => HasPrefix(formatJSON(run.version, run.branch).BuildMetaData,
                 FormatInt(formatJSON(run.version, run.branch).CommitsSinceVersionSource)
                    \o <<"+">>)

\* C28: with no next version and no forced increment, under the default
\* branch policies, the version CalculateVersion returns compares greater
\* than or equal to the version of every parseable tag reachable from HEAD,
\* for every branch and workflow.
C28_NotBelowReleasedHistory ==
    (/\ Returned
     /\ run.nextVersion = << >>
     /\ run.forceIncrement = ""
     /\ LoadConfig(opts.ConfigFile).Branches = getDefaultBranchConfigurations)
    => \A i \in 1..Len(TagNames) :
          (tagAt[i] > 0 /\ Parse(TagNames[i]).ok)
             => Compare(run.version, Parse(TagNames[i]).v) >= 0

\* The context the strategies of the recorded run were given, but for the
\* mask, which no strategy reads.
ContextOfRun ==
    VersionContext(LoadConfig(opts.ConfigFile), run.branch, GetSHA, run.branchConfig, {},
                   run.nextVersion)

\* What ConfiguredNextVersion (only with a next version passed), TaggedCommit,
\* MergeMessage and Fallback return for the recorded run, in the manager's
\* order.
FixedStrategiesPool ==
    (IF run.nextVersion # << >> THEN ConfiguredNextVersionStrategy(ContextOfRun).baseVersions
     ELSE << >>)
    \o TaggedCommitStrategy(ContextOfRun).baseVersions
    \o MergeMessageStrategy(ContextOfRun).baseVersions
    \o FallbackStrategy(ContextOfRun).baseVersions

\* One of the four strategies fails for the recorded run.
FixedStrategiesFail ==
    \/ (run.nextVersion # << >> /\ ConfiguredNextVersionStrategy(ContextOfRun).err)
    \/ MergeMessageStrategy(ContextOfRun).err

\* The sources that VersionInBranchName, TrackReleaseBranches and Mainline
\* give their base versions.
OtherStrategySources ==
    { "Version in branch name", "Release branch", "Mainline strategy (no tags)",
      "Mainline strategy (invalid tag)", "Mainline strategy from tag" }

\* C29: whatever the configuration's strategies list and the branch policy,
\* CalculateVersion runs TaggedCommit, MergeMessage and Fallback, and
\* ConfiguredNextVersion exactly when it is passed a next version; the other
\* three strategies contribute nothing, and since Fallback always
\* contributes, the selected base is never the "fallback" of the nil case.
C29_StrategySetIsFixed ==
    pc = "done"
    => /\ StrategiesMask(run.nextVersion)
            = {"TaggedCommit", "MergeMessage", "Fallback"}
              \cup (IF run.nextVersion # << >> THEN {"ConfiguredNextVersion"} ELSE {})
       /\ run.err = FixedStrategiesFail
       /\ ~run.err
            => /\ run.baseVersions = FixedStrategiesPool
               /\ \A k \in 1..Len(run.baseVersions) :
                     run.baseVersions[k].Source.text \notin OtherStrategySources
               /\ \E k \in 1..Len(run.baseVersions) :
                     run.baseVersions[k].Source.text = "Fallback strategy"
               /\ run.baseVersion.Source.text # "fallback"

\* C29 happens: a configuration that lists Mainline and VersionInBranchName,
\* a main-branch policy, a release branch named after a version and a version
\* tag; the pool holds the tag and the fallback only.
C29_Witness ==
    /\ Returned
    /\ "Mainline" \in {LoadConfig(opts.ConfigFile).Strategies[k] :
                          k \in 1..Len(LoadConfig(opts.ConfigFile).Strategies)}
    /\ opts.TargetBranch = <<"r","e","l","e","a","s","e","/","0",".","0",".","2","-","a","l","p","h","a">>
    /\ tagAt[3] > 0
    /\ Len(run.baseVersions) = 2
    /\ run.baseVersions[1].Source.text = "Tag"
    /\ run.baseVersions[2].Source.text = "Fallback strategy"

\* What the tests of the default policies look for at the start of a branch
\* name, and nothing.
PolicyHeads ==
    { << >>, <<"r","e","l","e","a","s","e","/">>, <<"r","e","l","e","a","s","e","s","/">>, <<"f","e","a","t","u","r","e","/">>, <<"f","e","a","t","u","r","e","s","/">>, <<"h","o","t","f","i","x","/">>, <<"h","o","t","f","i","x","e","s","/">>,
      <<"s","u","p","p","o","r","t","/">>, <<"p","u","l","l","/">>, <<"p","r","/">>, <<"p","u","l","l","-","r","e","q","u","e","s","t","/">>, <<"m","a","i","n","/">>, <<"d","e","v","e","l","o","p","/">> }

\* C30: with the default branch policies the lookup does not depend on the
\* order in which the map is visited: at most one policy's regex test
\* accepts a branch name, at most one policy's name followed by "/" begins
\* it, and GetBranchConfiguration has one possible result, the one returned;
\* this for the name looked up and for that name behind each policy's head.
C30_DefaultLookupIsDeterministic ==
    (LookedUp /\ opts.branches = getDefaultBranchConfigurations)
    => /\ GetBranchConfiguration([Branches |-> opts.branches], opts.branchName)
            = { run.policy }
       /\ \A head \in PolicyHeads :
             /\ Cardinality(RegexMatches([Branches |-> opts.branches],
                                         head \o opts.branchName)) <= 1
             /\ Cardinality(PrefixMatches([Branches |-> opts.branches],
                                          head \o opts.branchName)) <= 1
             /\ Cardinality(GetBranchConfiguration([Branches |-> opts.branches],
                                                   head \o opts.branchName)) = 1

\* C30 happens: a support branch whose name goes on with release/ is given
\* the support policy, the only one whose test accepts it.
C30_Witness ==
    /\ LookedUp
    /\ opts.branches = getDefaultBranchConfigurations
    /\ opts.branchName = <<"s","u","p","p","o","r","t","/","r","e","l","e","a","s","e","/","2">>
    /\ RegexMatches([Branches |-> opts.branches], opts.branchName) = { <<"s","u","p","p","o","r","t">> }
    /\ run.policy = getDefaultBranchConfigurations[<<"s","u","p","p","o","r","t">>]
====
